---------------------------- MODULE Spec2Model ----------------------------
(***************************************************************************)
(* A model of the question-answering service of src/main.py: the entity    *)
(* extraction heuristic, the graph store query, the formatting and fusion  *)
(* of the two retrieved contexts, and the answer synthesis with its        *)
(* fallback.                                                               *)
(*                                                                         *)
(* A Python str is modelled as a sequence of one-character strings, so     *)
(* that lengths, substrings and character classes are what the code sees.  *)
(***************************************************************************)
EXTENDS Integers, Sequences, FiniteSets, TLC

VARIABLES
    question,          \* req.question
    pc,                \* the position of the handler (or of the extraction run)
    vector_docs,       \* page_content of the documents similarity_search returned
    vector_context,    \* main.py:186
    entity,            \* main.py:189
    graph_results,     \* the dict query_graph_database builds and returns
    graph_context,     \* main.py:193
    combined_context,  \* main.py:196-200
    response,          \* the dict ask_question returns
    predict_calls,     \* how many times openai_model.predict was called
    raised,            \* the calls that have raised: "vector", "graph", "model"
    openai_model,      \* main.py:63-72, the client or None
    api_key,           \* main.py:26, the key or None
    store,             \* the content of the Neo4j store
    calls,             \* the calls made to the two stores and the model
    predicted,         \* main.py:211, what openai_model.predict returned
    parked,            \* the locals of the request that is not running now
    pages,             \* graphrag.py:111, the pages of the data file
    page,              \* graphrag.py:115, the index of the page in the loop
    entities,          \* graphrag.py:118, the entities of that page
    runs,              \* how many times create_graph has run to its end
    site,              \* the pages the driver is served, by URL
    driver,            \* nestle_scraper.py:196, 200, 288
    combined_data,     \* nestle_scraper.py:203
    internal_links,    \* nestle_scraper.py:236, the links still to visit
    visited_links,     \* nestle_scraper.py:237
    link,              \* nestle_scraper.py:240
    page_data,         \* nestle_scraper.py:229, 256
    scraped            \* what scrape_nestle_website returned

vars ==
    <<question, pc, vector_docs, vector_context, entity, graph_results,
      graph_context, combined_context, response, predict_calls, raised,
      openai_model, api_key, store, calls, predicted, parked, pages, page,
      entities, runs, site, driver, combined_data, internal_links,
      visited_links, link, page_data, scraped>>

\* The variables of the scraper, which the request handler and the graph
\* builder leave alone.
scraper ==
    <<site, driver, combined_data, internal_links, visited_links, link,
      page_data, scraped>>

(***************************************************************************)
(* Characters and the str methods the code uses.                           *)
(***************************************************************************)
UpperChars ==
    <<"A", "B", "C", "D", "E", "F", "G", "H", "I", "J", "K", "L", "M",
      "N", "O", "P", "Q", "R", "S", "T", "U", "V", "W", "X", "Y", "Z">>

LowerChars ==
    <<"a", "b", "c", "d", "e", "f", "g", "h", "i", "j", "k", "l", "m",
      "n", "o", "p", "q", "r", "s", "t", "u", "v", "w", "x", "y", "z">>

Upper == {UpperChars[i] : i \in 1..26}

Lower == {LowerChars[i] : i \in 1..26}

Digit == {"0", "1", "2", "3", "4", "5", "6", "7", "8", "9"}

\* What str.strip() removes.
Whitespace == {" ", "\t", "\n", "\r"}

DQ == "\""

SQ == "'"

\* The regex class [A-Z].
IsUpper(c) == c \in Upper

\* The regex class [A-Za-z0-9 &\-].
IsEntityChar(c) == c \in Upper \cup Lower \cup Digit \cup {" ", "&", "-"}

\* str.strip(): the text from its first to its last non-whitespace character.
Strip(s) ==
    LET keep == {i \in 1..Len(s) : s[i] \notin Whitespace}
        first == CHOOSE i \in keep : \A k \in keep : i <= k
        last == CHOOSE i \in keep : \A k \in keep : k <= i
    IN  IF keep = {} THEN <<>> ELSE SubSeq(s, first, last)

\* The lower-case form of one character (str.lower, Cypher's toLower).
LowerChar(c) ==
    IF c \in Upper
    THEN LowerChars[CHOOSE i \in 1..26 : UpperChars[i] = c]
    ELSE c

\* The upper-case form of one character (str.upper).
UpperChar(c) ==
    IF c \in Lower
    THEN UpperChars[CHOOSE i \in 1..26 : LowerChars[i] = c]
    ELSE c

ToLower(s) == [i \in 1..Len(s) |-> LowerChar(s[i])]

\* A capitalize that upper-cases the first character and leaves the rest.
CapitalizeFirstOnly(s) ==
    [i \in 1..Len(s) |-> IF i = 1 THEN UpperChar(s[i]) ELSE s[i]]

\* str.capitalize(): the first character upper-cased, the rest lower-cased.
Capitalize(s) ==
    [i \in 1..Len(s) |-> IF i = 1 THEN UpperChar(s[i]) ELSE LowerChar(s[i])]

\* str.replace(old, new) for single characters.
ReplaceChar(s, old, new) ==
    [i \in 1..Len(s) |-> IF s[i] = old THEN new ELSE s[i]]

\* sep.join(parts)
RECURSIVE Join(_, _)
Join(sep, parts) ==
    IF parts = <<>> THEN <<>>
    ELSE IF Len(parts) = 1 THEN parts[1]
    ELSE parts[1] \o sep \o Join(sep, Tail(parts))

\* The concatenation of a sequence of strings.
RECURSIVE Concat(_)
Concat(parts) ==
    IF parts = <<>> THEN <<>> ELSE parts[1] \o Concat(Tail(parts))

(***************************************************************************)
(* extract_entity_from_question: the three regular expressions, matched as *)
(* Python's re does (leftmost position first, greedy repetition), and the  *)
(* order in which the function tries them.                                 *)
(***************************************************************************)

\* Greedy [^c]+ from index j: the index just past the run of characters that
\* are not c.
RECURSIVE ScanNot(_, _, _)
ScanNot(s, j, c) ==
    IF j <= Len(s) /\ s[j] # c THEN ScanNot(s, j + 1, c) ELSE j

\* c([^c]+)c tried at index i: the index of the closing c, or 0 when the
\* alternative does not match there.
MatchDelimited(s, i, c) ==
    IF s[i] # c THEN 0
    ELSE LET j == ScanNot(s, i + 1, c)
         IN  IF j > i + 1 /\ j <= Len(s) THEN j ELSE 0

\* re.findall(r'"([^"]+)"|\'([^\']+)\'', s) from index i on: one pair of
\* groups per match, the group of the alternative that did not match empty.
RECURSIVE FindAllQuoted(_, _)
FindAllQuoted(s, i) ==
    IF i > Len(s) THEN <<>>
    ELSE LET d == MatchDelimited(s, i, DQ)
             q == MatchDelimited(s, i, SQ)
         IN  IF d # 0
             THEN <<<<SubSeq(s, i + 1, d - 1), <<>>>>>>
                      \o FindAllQuoted(s, d + 1)
             ELSE IF q # 0
             THEN <<<<<<>>, SubSeq(s, i + 1, q - 1)>>>>
                      \o FindAllQuoted(s, q + 1)
             ELSE FindAllQuoted(s, i + 1)

\* Greedy [A-Za-z0-9 &\-]* from index j: the index just past the run.
RECURSIVE ScanEntity(_, _)
ScanEntity(s, j) ==
    IF j <= Len(s) /\ IsEntityChar(s[j]) THEN ScanEntity(s, j + 1) ELSE j

\* (?:in|of) ([A-Z][A-Za-z0-9 &\-]+) tried at index i: <<first, last>> of
\* group 1, or <<>>.
MatchInOfAt(s, i) ==
    IF /\ i + 4 <= Len(s)
       /\ \/ s[i] = "i" /\ s[i + 1] = "n"
          \/ s[i] = "o" /\ s[i + 1] = "f"
       /\ s[i + 2] = " "
       /\ IsUpper(s[i + 3])
       /\ IsEntityChar(s[i + 4])
    THEN <<i + 3, ScanEntity(s, i + 4) - 1>>
    ELSE <<>>

\* re.search of that pattern: the match at the leftmost index.
RECURSIVE SearchInOf(_, _)
SearchInOf(s, i) ==
    IF i > Len(s) THEN <<>>
    ELSE LET m == MatchInOfAt(s, i)
         IN  IF m # <<>> THEN m ELSE SearchInOf(s, i + 1)

\* ([A-Z][A-Za-z0-9 &\-]{5,}) tried at index i.
MatchCapitalAt(s, i) ==
    IF IsUpper(s[i]) /\ ScanEntity(s, i + 1) - (i + 1) >= 5
    THEN <<i, ScanEntity(s, i + 1) - 1>>
    ELSE <<>>

RECURSIVE SearchCapital(_, _)
SearchCapital(s, i) ==
    IF i > Len(s) THEN <<>>
    ELSE LET m == MatchCapitalAt(s, i)
         IN  IF m # <<>> THEN m ELSE SearchCapital(s, i + 1)

\* The loop over quoted[0]: the first group that is not the empty string,
\* or <<>> when the loop ends without returning.
FirstTruthy(groups) ==
    IF groups[1] # <<>> THEN groups[1]
    ELSE IF groups[2] # <<>> THEN groups[2]
    ELSE <<>>

\* extract_entity_from_question with the fallback returning the question as
\* it is (the strip of main.py:178 left out).
ExtractFallbackUnstripped(q) ==
    LET quoted == FindAllQuoted(q, 1)
        inof == SearchInOf(q, 1)
        cap == SearchCapital(q, 1)
    IN  IF quoted # <<>> /\ FirstTruthy(quoted[1]) # <<>>
        THEN Strip(FirstTruthy(quoted[1]))
        ELSE IF inof # <<>> THEN Strip(SubSeq(q, inof[1], inof[2]))
        ELSE IF cap # <<>> THEN Strip(SubSeq(q, cap[1], cap[2]))
        ELSE q

\* extract_entity_from_question with the capitalized-phrase rule tried before
\* the in/of rule (main.py:170-172 and 174-176 swapped).
ExtractCapitalFirst(q) ==
    LET quoted == FindAllQuoted(q, 1)
        inof == SearchInOf(q, 1)
        cap == SearchCapital(q, 1)
    IN  IF quoted # <<>> /\ FirstTruthy(quoted[1]) # <<>>
        THEN Strip(FirstTruthy(quoted[1]))
        ELSE IF cap # <<>> THEN Strip(SubSeq(q, cap[1], cap[2]))
        ELSE IF inof # <<>> THEN Strip(SubSeq(q, inof[1], inof[2]))
        ELSE Strip(q)

extract_entity_from_question(q) ==
    LET quoted == FindAllQuoted(q, 1)
        inof == SearchInOf(q, 1)
        cap == SearchCapital(q, 1)
    IN  IF quoted # <<>> /\ FirstTruthy(quoted[1]) # <<>>
        THEN Strip(FirstTruthy(quoted[1]))
        ELSE IF inof # <<>> THEN Strip(SubSeq(q, inof[1], inof[2]))
        ELSE IF cap # <<>> THEN Strip(SubSeq(q, cap[1], cap[2]))
        ELSE Strip(q)

(***************************************************************************)
(* The texts of src/main.py.                                               *)
(***************************************************************************)
TEXT_HEADER ==
    <<"T", "e", "x", "t", "-", "b", "a", "s", "e", "d", " ", "i", "n", "f",
      "o", "r", "m", "a", "t", "i", "o", "n", ":", "\n">>

GRAPH_HEADER ==
    <<"G", "r", "a", "p", "h", "-", "b", "a", "s", "e", "d", " ", "i", "n",
      "f", "o", "r", "m", "a", "t", "i", "o", "n", ":", "\n">>

DIRECT_HEADER ==
    <<"D", "i", "r", "e", "c", "t", " ", "m", "a", "t", "c", "h", "e", "s",
      " ", "f", "o", "u", "n", "d", ":">>

RELATED_HEADER ==
    <<"\n", "R", "e", "l", "a", "t", "e", "d", " ", "i", "n", "f", "o", "r",
      "m", "a", "t", "i", "o", "n", ":">>

NO_INFORMATION ==
    <<"S", "o", "r", "r", "y", ",", " ", "I", " ", "c", "o", "u", "l", "d",
      "n", "'", "t", " ", "f", "i", "n", "d", " ", "a", "n", "y", " ", "r",
      "e", "l", "e", "v", "a", "n", "t", " ", "i", "n", "f", "o", "r", "m",
      "a", "t", "i", "o", "n", ".">>

MOCK_PREFIX ==
    <<"H", "e", "r", "e", "'", "s", " ", "w", "h", "a", "t", " ", "I", " ",
      "f", "o", "u", "n", "d", " ", "a", "b", "o", "u", "t", " ", "'">>

MOCK_SUFFIX ==
    <<"'", ":", "\n", "\n">>

\* The LIMIT of the direct-match query.
DIRECT_LIMIT == 5

\* The LIMIT of the connected-nodes query.
CONNECTED_LIMIT == 10

\* The k of similarity_search.
SEARCH_K == 5

\* The length an API key must exceed for the model to be tried.
KEY_LENGTH == 20

(***************************************************************************)
(* The inputs of a request and the content of the two stores, drawn from   *)
(* small sets.                                                             *)
(***************************************************************************)
Q_KITKAT ==
    <<"T", "e", "l", "l", " ", "m", "e", " ", "a", "b", "o", "u", "t", " ",
      "'", "K", "i", "t", "K", "a", "t", "'">>

Q_MILO ==
    <<"W", "h", "a", "t", "'", "s", " ", "i", "n", " ", "M", "i", "l", "o",
      "?">>

Q_BLANK ==
    <<" ">>

Questions == {Q_KITKAT, Q_MILO, Q_BLANK}

KITKAT ==
    <<"K", "i", "t", "K", "a", "t">>

MILO ==
    <<"M", "i", "l", "o">>

RECIPE ==
    <<"R", "e", "c", "i", "p", "e">>

INGREDIENT ==
    <<"I", "n", "g", "r", "e", "d", "i", "e", "n", "t">>

HAS_INGREDIENT ==
    <<"H", "A", "S", "_", "I", "N", "G", "R", "E", "D", "I", "E", "N", "T">>

BELONGS_TO_CATEGORY ==
    <<"B", "E", "L", "O", "N", "G", "S", "_", "T", "O", "_", "C", "A", "T",
      "E", "G", "O", "R", "Y">>

DOC_TEXT ==
    <<"K", "i", "t", "K", "a", "t", " ", "i", "s", " ", "a", " ", "w", "a",
      "f", "e", "r", " ", "b", "a", "r", ".">>

REPLY_TEXT ==
    <<" ", "K", "i", "t", "K", "a", "t", " ", "i", "s", " ", "a", " ", "w",
      "a", "f", "e", "r", " ", "b", "a", "r", ".", "\n">>

VECTOR_ERROR ==
    <<"C", "o", "l", "l", "e", "c", "t", "i", "o", "n", " ", "n", "o", "t",
      " ", "f", "o", "u", "n", "d">>


DigitChars == <<"0", "1", "2", "3", "4", "5", "6", "7", "8", "9">>

\* The store holds at most MaxNodes nodes.
MaxNodes == 8

\* The vector store returns at most MaxDocs documents.
MaxDocs == 2

\* A character budget for the fused context.
MaxChars == 300

\* Node i of the store: a recipe named KitKat<i>, every fourth one an
\* ingredient named Milo<i>.
Node(i) ==
    [name |-> (IF i % 4 = 0 THEN MILO ELSE KITKAT) \o <<DigitChars[i + 1]>>,
     labels |-> <<IF i % 4 = 0 THEN INGREDIENT ELSE RECIPE>>]

\* Edge i of a linked store, from node i to node i + 1.
Edge(i) ==
    [from |-> i,
     type |-> IF i % 2 = 1 THEN HAS_INGREDIENT ELSE BELONGS_TO_CATEGORY,
     to |-> i + 1]

\* The store contents: the first n nodes, unlinked or linked in a chain.
Stores ==
    { [nodes |-> [i \in 1..n |-> Node(i)],
       edges |-> IF linked THEN [i \in 1..(n - 1) |-> Edge(i)] ELSE <<>>] :
        n \in 0..MaxNodes, linked \in BOOLEAN }

DocTexts == {<<>>, DOC_TEXT}

\* What similarity_search can return: at most k documents, best first.
similarity_search(k) ==
    UNION { [1..n -> DocTexts] :
              n \in 0..(IF k < MaxDocs THEN k ELSE MaxDocs) }

\* What openai_model.predict can return.
ModelReplies == {REPLY_TEXT, <<>>}

\* os.getenv("OPENAI_API_KEY"): None, or the key.
NoKey == [set |-> FALSE, value |-> <<>>]

KeyOf(prefix, n) ==
    [set |-> TRUE,
     value |-> prefix \o [i \in 1..(n - Len(prefix)) |-> "x"]]

ApiKeys ==
    { NoKey,
      KeyOf(<<"s", "k", "-">>, KEY_LENGTH - 1),
      KeyOf(<<"s", "k", "-">>, KEY_LENGTH),
      KeyOf(<<"s", "k", "-">>, KEY_LENGTH + 1),
      KeyOf(<<"y", "o", "u", "r", "-">>, KEY_LENGTH + 1) }

(***************************************************************************)
(* query_graph_database                                                    *)
(***************************************************************************)
Take(s, n) == SubSeq(s, 1, IF Len(s) < n THEN Len(s) ELSE n)

\* Cypher's CONTAINS.
Contains(hay, needle) ==
    \E i \in 0..(Len(hay) - Len(needle)) :
        SubSeq(hay, i + 1, i + Len(needle)) = needle

\* WHERE toLower(n.name) CONTAINS toLower($search_term)
NameMatches(node, term) == Contains(ToLower(node.name), ToLower(term))

\* The direct-match query with no LIMIT.
DirectMatchQueryUnlimited(st, term) ==
    LET Hit(n) == NameMatches(n, term)
        hits == SelectSeq(st.nodes, Hit)
    IN  [i \in 1..Len(hits) |-> [n |-> hits[i], type |-> hits[i].labels]]

\* MATCH (n) WHERE ... RETURN n, labels(n) as type LIMIT 5
DirectMatchQuery(st, term) ==
    LET Hit(n) == NameMatches(n, term)
        hits == Take(SelectSeq(st.nodes, Hit), DIRECT_LIMIT)
    IN  [i \in 1..Len(hits) |-> [n |-> hits[i], type |-> hits[i].labels]]

\* The rows (n)-[r]-(m) of node i, the edge taken in either direction.
IncidentRows(st, i) ==
    LET Touches(e) == e.from = i \/ e.to = i
        es == SelectSeq(st.edges, Touches)
    IN  [k \in 1..Len(es) |->
            LET m == IF es[k].from = i THEN es[k].to ELSE es[k].from
            IN  [source |-> st.nodes[i].name,
                 rel_type |-> es[k].type,
                 target |-> st.nodes[m].name,
                 target_type |-> st.nodes[m].labels]]

\* MATCH (n)-[r]-(m) WHERE ..., unlimited, from node i on.
RECURSIVE ConnectedRows(_, _, _)
ConnectedRows(st, term, i) ==
    IF i > Len(st.nodes) THEN <<>>
    ELSE (IF NameMatches(st.nodes[i], term)
          THEN IncidentRows(st, i) ELSE <<>>)
             \o ConnectedRows(st, term, i + 1)

\* MATCH (n)-[r]-(m) WHERE ... RETURN ... LIMIT 10
ConnectedNodesQuery(st, term) ==
    Take(ConnectedRows(st, term, 1), CONNECTED_LIMIT)

\* main.py:106-111
DirectMatchOf(record) == [name |-> record.n.name, type |-> record.type[1]]

\* main.py:127-132
ConnectedNodeOf(record) ==
    [source |-> record.source,
     relationship |-> record.rel_type,
     target |-> record.target,
     target_type |-> record.target_type[1]]

(***************************************************************************)
(* format_graph_context, the fusion of the two contexts, the fallback text *)
(***************************************************************************)
\* The line of a direct match with the name before the label.
DirectLineNameFirst(match) ==
    <<" ", " ", "-", " ">> \o match.name \o <<":", " ">> \o match.type

DirectLine(match) == <<" ", " ", "-", " ">> \o match.type \o <<":", " ">> \o match.name

RelatedLine(rel) ==
    LET rel_type == Capitalize(ReplaceChar(rel.relationship, "_", " "))
    IN  <<" ", " ", "-", " ">> \o rel.source \o <<" ">> \o rel_type \o <<" ">>
            \o rel.target \o <<" ", "(">> \o rel.target_type \o <<")">>

format_graph_context(results) ==
    LET direct == results.direct_matches
        connected == results.connected_nodes
        context_parts ==
            (IF direct # <<>>
             THEN <<DIRECT_HEADER>> \o [i \in 1..Len(direct) |-> DirectLine(direct[i])]
             ELSE <<>>)
            \o (IF connected # <<>>
                THEN <<RELATED_HEADER>>
                         \o [i \in 1..Len(connected) |-> RelatedLine(connected[i])]
                ELSE <<>>)
    IN  IF context_parts # <<>> THEN Join(<<"\n">>, context_parts) ELSE <<>>

\* main.py:186
VectorContextOf(docs) == IF docs # <<>> THEN Join(<<"\n">>, docs) ELSE <<>>

\* The fusion cut to a budget of MaxChars characters.
CombineTruncated(vector, graph) ==
    Take((IF vector # <<>> THEN TEXT_HEADER \o vector \o <<"\n", "\n">>
          ELSE <<>>)
         \o (IF graph # <<>> THEN GRAPH_HEADER \o graph ELSE <<>>),
         MaxChars)

\* The fusion with the graph section added whether or not it is empty.
CombineGraphAlways(vector, graph) ==
    (IF vector # <<>> THEN TEXT_HEADER \o vector \o <<"\n", "\n">> ELSE <<>>)
    \o GRAPH_HEADER \o graph

\* The fusion with the graph section before the text section.
CombineGraphFirst(vector, graph) ==
    (IF graph # <<>> THEN GRAPH_HEADER \o graph \o <<"\n", "\n">> ELSE <<>>)
    \o (IF vector # <<>> THEN TEXT_HEADER \o vector ELSE <<>>)

\* main.py:196-200
CombineContexts(vector, graph) ==
    (IF vector # <<>> THEN TEXT_HEADER \o vector \o <<"\n", "\n">> ELSE <<>>)
    \o (IF graph # <<>> THEN GRAPH_HEADER \o graph ELSE <<>>)

\* The fallback text without the retrieved context.
MockWithoutContext(q, context) == MOCK_PREFIX \o q \o MOCK_SUFFIX

\* main.py:75-77
get_mock_response(q, context) == MOCK_PREFIX \o q \o MOCK_SUFFIX \o context

\* The length below which the start-up check rejects a key.
STARTUP_KEY_LENGTH == 20

YOUR_PREFIX == <<"y", "o", "u", "r", "-">>

\* str.startswith
StartsWith(s, prefix) ==
    Len(prefix) <= Len(s) /\ SubSeq(s, 1, Len(prefix)) = prefix

\* main.py:27-31: the start-up check takes the else branch and prints
\* "OpenAI API key found".
StartupKeyFound ==
    ~(\/ ~api_key.set
      \/ api_key.value = <<>>
      \/ StartsWith(api_key.value, YOUR_PREFIX)
      \/ Len(api_key.value) < STARTUP_KEY_LENGTH)

\* main.py:205
ModelUsable ==
    /\ openai_model # "None"
    /\ api_key.set /\ api_key.value # <<>>
    /\ Len(api_key.value) > KEY_LENGTH

\* main.py:208-209: the prompt template around the context and the question.
PROMPT_HEAD ==
    <<"\n", "Y", "o", "u", " ", "a", "r", "e", " ", "a", " ", "h", "e", "l",
      "p", "f", "u", "l", " ", "a", "s", "s", "i", "s", "t", "a", "n", "t",
      " ", "t", "h", "a", "t", " ", "a", "n", "s", "w", "e", "r", "s", " ",
      "q", "u", "e", "s", "t", "i", "o", "n", "s", " ", "b", "a", "s", "e",
      "d", " ", "o", "n", " ", "N", "e", "s", "t", "l", "é", "'", "s", " ",
      "c", "o", "n", "t", "e", "n", "t", ".", "\n", "U", "s", "e", " ", "o",
      "n", "l", "y", " ", "t", "h", "e", " ", "c", "o", "n", "t", "e", "x",
      "t", " ", "p", "r", "o", "v", "i", "d", "e", "d", " ", "b", "e", "l",
      "o", "w", " ", "t", "o", " ", "a", "n", "s", "w", "e", "r", ".", "\n",
      "T", "h", "e", " ", "c", "o", "n", "t", "e", "x", "t", " ", "c", "o",
      "m", "e", "s", " ", "f", "r", "o", "m", " ", "t", "w", "o", " ", "s",
      "o", "u", "r", "c", "e", "s", ":", "\n", "1", ".", " ", "T", "e", "x",
      "t", "-", "b", "a", "s", "e", "d", " ", "i", "n", "f", "o", "r", "m",
      "a", "t", "i", "o", "n", " ", "f", "r", "o", "m", " ", "N", "e", "s",
      "t", "l", "é", "'", "s", " ", "c", "o", "n", "t", "e", "n", "t", "\n",
      "2", ".", " ", "G", "r", "a", "p", "h", "-", "b", "a", "s", "e", "d",
      " ", "i", "n", "f", "o", "r", "m", "a", "t", "i", "o", "n", " ", "s",
      "h", "o", "w", "i", "n", "g", " ", "r", "e", "l", "a", "t", "i", "o",
      "n", "s", "h", "i", "p", "s", " ", "b", "e", "t", "w", "e", "e", "n",
      " ", "r", "e", "c", "i", "p", "e", "s", ",", " ", "i", "n", "g", "r",
      "e", "d", "i", "e", "n", "t", "s", ",", " ", "a", "n", "d", " ", "c",
      "a", "t", "e", "g", "o", "r", "i", "e", "s", "\n", "\n", "C", "o", "n",
      "t", "e", "x", "t", ":", "\n">>

PROMPT_QUESTION ==
    <<"\n", "\n", "Q", "u", "e", "s", "t", "i", "o", "n", ":", "\n">>

PROMPT_TAIL ==
    <<"\n">>

Prompt(context, q) ==
    PROMPT_HEAD \o context \o PROMPT_QUESTION \o q \o PROMPT_TAIL

\* A call to the vector store, the graph store or the model: what it is
\* given.
Call(to, arg, k) == [to |-> to, arg |-> arg, k |-> k]

Answer(text) == [key |-> "answer", value |-> text]

ErrorPayload(text) == [key |-> "error", value |-> text]

NoResponse == [key |-> "none", value |-> <<>>]

NoResults == [direct_matches |-> <<>>, connected_nodes |-> <<>>]


\* graphrag.py:53-57
NoEntities == [recipes |-> <<>>, ingredients |-> <<>>, categories |-> <<>>]

\* The locals of a request at the start of the handler.
NewRequest(q) ==
    [question |-> q, pc |-> "start", vector_docs |-> <<>>,
     vector_context |-> <<>>, entity |-> <<>>, graph_results |-> NoResults,
     graph_context |-> <<>>, combined_context |-> <<>>,
     response |-> NoResponse, predict_calls |-> 0, raised |-> {},
     calls |-> <<>>, predicted |-> <<>>]

\* No other request is being handled.
NoRequest == [NewRequest(<<>>) EXCEPT !.pc = "none"]

\* What a Python function that ends without a return statement returns.
None == [type |-> "NoneType"]

\* nestle_scraper.py:70-77, 203-210: the six lists, empty.
EmptyData ==
    [headings |-> <<>>, paragraphs |-> <<>>, list_items |-> <<>>,
     links |-> <<>>, images |-> <<>>, tables |-> <<>>]

\* The scraper is not running.
NotScraping ==
    /\ site = <<>>
    /\ driver = "None"
    /\ combined_data = EmptyData
    /\ internal_links = {}
    /\ visited_links = {}
    /\ link = <<>>
    /\ page_data = None
    /\ scraped = None

(***************************************************************************)
(* One request to /ask: ask_question, step by step.                        *)
(***************************************************************************)
Init ==
    /\ question \in Questions
    /\ pc = "start"
    /\ vector_docs = <<>>
    /\ vector_context = <<>>
    /\ entity = <<>>
    /\ graph_results = NoResults
    /\ graph_context = <<>>
    /\ combined_context = <<>>
    /\ response = NoResponse
    /\ predict_calls = 0
    /\ raised = {}
    /\ openai_model \in {"client", "None"}
    /\ api_key \in ApiKeys
    /\ store \in Stores
    /\ calls = <<>>
    /\ predicted = <<>>
    /\ parked = NoRequest
    /\ pages = <<>>
    /\ page = 0
    /\ entities = NoEntities
    /\ runs = 0
    /\ NotScraping

\* similarity_search with its exception swallowed: the request goes on with
\* no documents.
VectorSearchSoftFail ==
    /\ pc = "start"
    /\ calls' = Append(calls, Call("similarity_search", question, SEARCH_K))
    /\ \/ /\ raised' = raised \cup {"vector"}
          /\ vector_docs' = <<>>
          /\ vector_context' = <<>>
       \/ \E docs \in similarity_search(SEARCH_K) :
            /\ vector_docs' = docs
            /\ vector_context' = VectorContextOf(docs)
            /\ UNCHANGED raised
    /\ pc' = "extract_entity"
    /\ UNCHANGED <<question, entity, graph_results, graph_context,
                   combined_context, response, predict_calls, openai_model,
                   api_key, store, predicted, parked, pages, page, entities,
                   runs>>
    /\ UNCHANGED scraper

\* similarity_search called outside the try: its exception leaves the
\* handler.
VectorSearchEscaping ==
    /\ pc = "start"
    /\ calls' = Append(calls, Call("similarity_search", question, SEARCH_K))
    /\ \/ /\ raised' = raised \cup {"vector"}
          /\ pc' = "raise_185"
          /\ UNCHANGED <<vector_docs, vector_context>>
       \/ \E docs \in similarity_search(SEARCH_K) :
            /\ vector_docs' = docs
            /\ vector_context' = VectorContextOf(docs)
            /\ pc' = "extract_entity"
            /\ UNCHANGED raised
    /\ UNCHANGED <<question, entity, graph_results, graph_context,
                   combined_context, response, predict_calls, openai_model,
                   api_key, store, predicted, parked, pages, page, entities,
                   runs>>
    /\ UNCHANGED scraper

\* main.py:185-186, and 222-224 when similarity_search raises.
VectorSearch ==
    /\ pc = "start"
    /\ calls' = Append(calls, Call("similarity_search", question, SEARCH_K))
    /\ \/ /\ raised' = raised \cup {"vector"}
          /\ response' = ErrorPayload(VECTOR_ERROR)
          /\ pc' = "return_224"
          /\ UNCHANGED <<vector_docs, vector_context>>
       \/ \E docs \in similarity_search(SEARCH_K) :
            /\ vector_docs' = docs
            /\ vector_context' = VectorContextOf(docs)
            /\ pc' = "extract_entity"
            /\ UNCHANGED <<raised, response>>
    /\ UNCHANGED <<question, entity, graph_results, graph_context,
                   combined_context, predict_calls, openai_model, api_key,
                   store, predicted, parked, pages, page, entities, runs>>
    /\ UNCHANGED scraper

\* main.py:189
ExtractEntity ==
    /\ pc = "extract_entity"
    /\ entity' = extract_entity_from_question(question)
    /\ pc' = "graph_session"
    /\ UNCHANGED <<question, vector_docs, vector_context, graph_results,
                   graph_context, combined_context, response, predict_calls,
                   raised, openai_model, api_key, store, calls, predicted,
                   parked, pages, page, entities, runs>>
    /\ UNCHANGED scraper

\* main.py:81-91: the results start empty; opening the session or the test
\* query may raise, which ends the query at line 135.
GraphSession ==
    /\ pc = "graph_session"
    /\ graph_results' = NoResults
    /\ \/ /\ raised' = raised \cup {"graph"}
          /\ pc' = "graph_return"
       \/ /\ pc' = "graph_direct"
          /\ UNCHANGED raised
    /\ UNCHANGED <<question, vector_docs, vector_context, entity,
                   graph_context, combined_context, response, predict_calls,
                   openai_model, api_key, store, calls, predicted, parked,
                   pages, page, entities, runs>>
    /\ UNCHANGED scraper

\* The direct-match query given the whole question as its search term.
GraphDirectRawQuestion ==
    /\ pc = "graph_direct"
    /\ calls' = Append(calls, Call("direct_matches", question, DIRECT_LIMIT))
    /\ LET records == DirectMatchQuery(store, question)
       IN  \/ /\ raised' = raised \cup {"graph"}
              /\ pc' = "graph_return"
              /\ UNCHANGED graph_results
           \/ \E k \in 0..(Len(records) - 1) :
                /\ graph_results' =
                       [graph_results EXCEPT !.direct_matches =
                           [i \in 1..k |-> DirectMatchOf(records[i])]]
                /\ raised' = raised \cup {"graph"}
                /\ pc' = "graph_return"
           \/ /\ graph_results' =
                     [graph_results EXCEPT !.direct_matches =
                         [i \in 1..Len(records) |-> DirectMatchOf(records[i])]]
              /\ pc' = "graph_connected"
              /\ UNCHANGED raised
    /\ UNCHANGED <<question, vector_docs, vector_context, entity,
                   graph_context, combined_context, response, predict_calls,
                   openai_model, api_key, store, predicted, parked, pages,
                   page, entities, runs>>
    /\ UNCHANGED scraper

\* main.py:95-112: the direct-match query and the loop over its records.
\* The query may raise, and so may the read of any record, after the
\* records before it have been appended.
GraphDirect ==
    /\ pc = "graph_direct"
    /\ calls' = Append(calls, Call("direct_matches", entity, DIRECT_LIMIT))
    /\ LET records == DirectMatchQuery(store, entity)
       IN  \/ /\ raised' = raised \cup {"graph"}
              /\ pc' = "graph_return"
              /\ UNCHANGED graph_results
           \/ \E k \in 0..(Len(records) - 1) :
                /\ graph_results' =
                       [graph_results EXCEPT !.direct_matches =
                           [i \in 1..k |-> DirectMatchOf(records[i])]]
                /\ raised' = raised \cup {"graph"}
                /\ pc' = "graph_return"
           \/ /\ graph_results' =
                     [graph_results EXCEPT !.direct_matches =
                         [i \in 1..Len(records) |-> DirectMatchOf(records[i])]]
              /\ pc' = "graph_connected"
              /\ UNCHANGED raised
    /\ UNCHANGED <<question, vector_docs, vector_context, entity,
                   graph_context, combined_context, response, predict_calls,
                   openai_model, api_key, store, predicted, parked, pages,
                   page, entities, runs>>
    /\ UNCHANGED scraper

\* The second query with no try around it: a failure ends the request with
\* the error payload.
GraphConnectedPropagating ==
    /\ pc = "graph_connected"
    /\ calls' = Append(calls, Call("connected_nodes", entity, CONNECTED_LIMIT))
    /\ LET records == ConnectedNodesQuery(store, entity)
       IN  \/ /\ raised' = raised \cup {"graph"}
              /\ response' = ErrorPayload(VECTOR_ERROR)
              /\ pc' = "return_224"
              /\ UNCHANGED graph_results
           \/ /\ graph_results' =
                     [graph_results EXCEPT !.connected_nodes =
                         [i \in 1..Len(records) |->
                             ConnectedNodeOf(records[i])]]
              /\ pc' = "graph_return"
              /\ UNCHANGED <<raised, response>>
    /\ UNCHANGED <<question, vector_docs, vector_context, entity,
                   graph_context, combined_context, predict_calls,
                   openai_model, api_key, store, predicted, parked, pages,
                   page, entities, runs>>
    /\ UNCHANGED scraper

\* main.py:116-133: the connected-nodes query and the loop over its
\* records, with the same failures.
GraphConnected ==
    /\ pc = "graph_connected"
    /\ calls' = Append(calls, Call("connected_nodes", entity, CONNECTED_LIMIT))
    /\ LET records == ConnectedNodesQuery(store, entity)
       IN  \/ /\ raised' = raised \cup {"graph"}
              /\ UNCHANGED graph_results
           \/ \E k \in 0..(Len(records) - 1) :
                /\ graph_results' =
                       [graph_results EXCEPT !.connected_nodes =
                           [i \in 1..k |-> ConnectedNodeOf(records[i])]]
                /\ raised' = raised \cup {"graph"}
           \/ /\ graph_results' =
                     [graph_results EXCEPT !.connected_nodes =
                         [i \in 1..Len(records) |->
                             ConnectedNodeOf(records[i])]]
              /\ UNCHANGED raised
    /\ pc' = "graph_return"
    /\ UNCHANGED <<question, vector_docs, vector_context, entity,
                   graph_context, combined_context, response, predict_calls,
                   openai_model, api_key, store, predicted, parked, pages,
                   page, entities, runs>>
    /\ UNCHANGED scraper

\* main.py:139 and 193-203: the results come back, are formatted and fused
\* with the vector context; with nothing in either, the canned answer.
CombineContext ==
    /\ pc = "graph_return"
    /\ graph_context' = format_graph_context(graph_results)
    /\ combined_context' = CombineContexts(vector_context, graph_context')
    /\ IF combined_context' = <<>>
       THEN /\ response' = Answer(NO_INFORMATION)
            /\ pc' = "return_203"
       ELSE /\ pc' = "synthesize"
            /\ UNCHANGED response
    /\ UNCHANGED <<question, vector_docs, vector_context, entity,
                   graph_results, predict_calls, raised, openai_model,
                   api_key, store, calls, predicted, parked, pages, page,
                   entities, runs>>
    /\ UNCHANGED scraper

\* The model call retried after a failure.
PredictRetrying ==
    /\ pc = "synthesize"
    /\ ModelUsable
    /\ predict_calls < 3
    /\ predict_calls' = predict_calls + 1
    /\ calls' = Append(calls, Call("predict", Prompt(combined_context, question), 0))
    /\ \/ \E reply \in ModelReplies :
            /\ predicted' = reply
            /\ response' = Answer(Strip(reply))
            /\ pc' = "return_213"
            /\ UNCHANGED raised
       \/ /\ raised' = raised \cup {"model"}
          /\ pc' = IF predict_calls' < 3 THEN "synthesize" ELSE "except_214"
          /\ UNCHANGED <<response, predicted>>
    /\ UNCHANGED <<question, vector_docs, vector_context, entity,
                   graph_results, graph_context, combined_context,
                   openai_model, api_key, store, parked, pages, page,
                   entities, runs>>
    /\ UNCHANGED scraper

\* The model's answer returned as it came, not stripped.
PredictUntrimmed ==
    /\ pc = "synthesize"
    /\ ModelUsable
    /\ predict_calls' = predict_calls + 1
    /\ calls' = Append(calls, Call("predict", Prompt(combined_context, question), 0))
    /\ \/ \E reply \in ModelReplies :
            /\ predicted' = reply
            /\ response' = Answer(reply)
            /\ pc' = "return_213"
            /\ UNCHANGED raised
       \/ /\ raised' = raised \cup {"model"}
          /\ pc' = "except_214"
          /\ UNCHANGED <<response, predicted>>
    /\ UNCHANGED <<question, vector_docs, vector_context, entity,
                   graph_results, graph_context, combined_context,
                   openai_model, api_key, store, parked, pages, page,
                   entities, runs>>
    /\ UNCHANGED scraper

\* main.py:205-213: the model is tried; it answers, raises, or never
\* returns: the call at line 211 is given no timeout, and the handler has
\* nothing that would abandon it.
Predict ==
    /\ pc = "synthesize"
    /\ ModelUsable
    /\ predict_calls' = predict_calls + 1
    /\ calls' = Append(calls, Call("predict", Prompt(combined_context, question), 0))
    /\ \/ \E reply \in ModelReplies :
            /\ predicted' = reply
            /\ response' = Answer(Strip(reply))
            /\ pc' = "return_213"
            /\ UNCHANGED raised
       \/ /\ raised' = raised \cup {"model"}
          /\ pc' = "except_214"
          /\ UNCHANGED <<response, predicted>>
       \/ /\ pc' = "blocked_211"
          /\ UNCHANGED <<response, predicted, raised>>
    /\ UNCHANGED <<question, vector_docs, vector_context, entity,
                   graph_results, graph_context, combined_context,
                   openai_model, api_key, store, parked, pages, page,
                   entities, runs>>
    /\ UNCHANGED scraper

\* The except clause trying the model once more before it falls back: the
\* second call may not return.
PredictFailedRetrying ==
    /\ pc = "except_214"
    /\ \/ /\ response' = Answer(get_mock_response(question, combined_context))
          /\ pc' = "return_217"
       \/ /\ pc' = "blocked_211"
          /\ UNCHANGED response
    /\ UNCHANGED <<question, vector_docs, vector_context, entity,
                   graph_results, graph_context, combined_context,
                   predict_calls, raised, openai_model, api_key, store, calls,
                   predicted, parked, pages, page, entities, runs>>
    /\ UNCHANGED scraper

\* The except clause giving up on the model for the requests to come.
PredictFailedDisablingModel ==
    /\ pc = "except_214"
    /\ response' = Answer(get_mock_response(question, combined_context))
    /\ pc' = "return_217"
    /\ openai_model' = "None"
    /\ UNCHANGED <<question, vector_docs, vector_context, entity,
                   graph_results, graph_context, combined_context,
                   predict_calls, raised, api_key, store, calls, predicted,
                   parked, pages, page, entities, runs>>
    /\ UNCHANGED scraper

\* main.py:214-217
PredictFailed ==
    /\ pc = "except_214"
    /\ response' = Answer(get_mock_response(question, combined_context))
    /\ pc' = "return_217"
    /\ UNCHANGED <<question, vector_docs, vector_context, entity,
                   graph_results, graph_context, combined_context,
                   predict_calls, raised, openai_model, api_key, store, calls,
                   predicted, parked, pages, page, entities, runs>>
    /\ UNCHANGED scraper

\* main.py:218-221
NoModel ==
    /\ pc = "synthesize"
    /\ ~ModelUsable
    /\ response' = Answer(get_mock_response(question, combined_context))
    /\ pc' = "return_221"
    /\ UNCHANGED <<question, vector_docs, vector_context, entity,
                   graph_results, graph_context, combined_context,
                   predict_calls, raised, openai_model, api_key, store, calls,
                   predicted, parked, pages, page, entities, runs>>
    /\ UNCHANGED scraper

Next ==
    \/ VectorSearch
    \/ ExtractEntity
    \/ GraphSession
    \/ GraphDirect
    \/ GraphConnected
    \/ CombineContext
    \/ Predict
    \/ PredictFailed
    \/ NoModel

Spec == Init /\ [][Next]_vars

(***************************************************************************)
(* Two requests handled at once.  The server may leave one handler for the *)
(* other between any two steps; the locals of the one it left are parked.  *)
(* The store, the model client and the key are the module's globals, the   *)
(* same for both.                                                          *)
(***************************************************************************)
Locals ==
    [question |-> question, pc |-> pc, vector_docs |-> vector_docs,
     vector_context |-> vector_context, entity |-> entity,
     graph_results |-> graph_results, graph_context |-> graph_context,
     combined_context |-> combined_context, response |-> response,
     predict_calls |-> predict_calls, raised |-> raised, calls |-> calls,
     predicted |-> predicted]

\* The server goes on with the other request.
Switch ==
    /\ parked.pc # "none"
    /\ parked' = Locals
    /\ question' = parked.question
    /\ pc' = parked.pc
    /\ vector_docs' = parked.vector_docs
    /\ vector_context' = parked.vector_context
    /\ entity' = parked.entity
    /\ graph_results' = parked.graph_results
    /\ graph_context' = parked.graph_context
    /\ combined_context' = parked.combined_context
    /\ response' = parked.response
    /\ predict_calls' = parked.predict_calls
    /\ raised' = parked.raised
    /\ calls' = parked.calls
    /\ predicted' = parked.predicted
    /\ UNCHANGED <<openai_model, api_key, store, pages, page, entities, runs>>
    /\ UNCHANGED scraper

\* The stores of the two-request runs hold at most MaxPeerNodes nodes.
MaxPeerNodes == 1

InitConcurrent ==
    /\ question \in {Q_KITKAT, Q_MILO}
    /\ pc = "start"
    /\ vector_docs = <<>>
    /\ vector_context = <<>>
    /\ entity = <<>>
    /\ graph_results = NoResults
    /\ graph_context = <<>>
    /\ combined_context = <<>>
    /\ response = NoResponse
    /\ predict_calls = 0
    /\ raised = {}
    /\ openai_model = "client"
    /\ api_key \in {NoKey, KeyOf(<<"s", "k", "-">>, KEY_LENGTH + 1)}
    /\ store \in {st \in Stores : Len(st.nodes) <= MaxPeerNodes}
    /\ calls = <<>>
    /\ predicted = <<>>
    /\ parked \in {NewRequest(q) : q \in {Q_KITKAT, Q_MILO}}
    /\ pages = <<>>
    /\ page = 0
    /\ entities = NoEntities
    /\ runs = 0
    /\ NotScraping

NextConcurrent ==
    \/ Next
    \/ Switch

SpecConcurrent == InitConcurrent /\ [][NextConcurrent]_vars

\* The requests whose progress is checked: over a store of at most
\* MaxLiveNodes nodes.
MaxLiveNodes == 1

InitLive ==
    /\ Init
    /\ question = Q_KITKAT
    /\ Len(store.nodes) <= MaxLiveNodes

\* The interpreter runs the handler on: a step that can be taken is taken.
SpecLive == InitLive /\ [][Next]_vars /\ WF_vars(Next)

\* The handler has returned.
Returned ==
    pc \in {"return_203", "return_213", "return_217", "return_221",
            "return_224"}

\* The fused context has been built (main.py:200 is behind).
Fused ==
    pc \in {"synthesize", "blocked_211", "except_214", "return_203",
            "return_213", "return_217", "return_221"}

(***************************************************************************)
(* The questions the extraction is run on: every concatenation of at most  *)
(* MaxPieces pieces.  The pieces hold the two keywords, a lone capital, a  *)
(* five-character capitalized name with &, - and a digit, a word with an   *)
(* apostrophe, a space and the two quote characters.                       *)
(***************************************************************************)
MaxPieces == 5

Pieces ==
    { <<"i", "n", " ">>,
      <<"o", "f", " ">>,
      <<"A", "&", "W", "-", "1">>,
      <<"K">>,
      <<"i", "t", "'", "s", " ">>,
      <<" ">>,
      <<SQ>>,
      <<DQ>> }

ExtractQuestions ==
    { Concat(ps) : ps \in UNION { [1..n -> Pieces] : n \in 0..MaxPieces } }

\* The extraction run on its own: a question, then the call.
InitExtract ==
    /\ question \in ExtractQuestions
    /\ pc = "extract"
    /\ vector_docs = <<>>
    /\ vector_context = <<>>
    /\ entity = <<>>
    /\ graph_results = NoResults
    /\ graph_context = <<>>
    /\ combined_context = <<>>
    /\ response = NoResponse
    /\ predict_calls = 0
    /\ raised = {}
    /\ openai_model = "None"
    /\ api_key = "None"
    /\ store = [nodes |-> <<>>, edges |-> <<>>]
    /\ calls = <<>>
    /\ predicted = <<>>
    /\ parked = NoRequest
    /\ pages = <<>>
    /\ page = 0
    /\ entities = NoEntities
    /\ runs = 0
    /\ NotScraping

CallExtract ==
    /\ pc = "extract"
    /\ entity' = extract_entity_from_question(question)
    /\ pc' = "extracted"
    /\ UNCHANGED <<question, vector_docs, vector_context, graph_results,
                   graph_context, combined_context, response, predict_calls,
                   raised, openai_model, api_key, store, calls, predicted,
                   parked, pages, page, entities, runs>>
    /\ UNCHANGED scraper

NextExtract == CallExtract

SpecExtract == InitExtract /\ [][NextExtract]_vars

(***************************************************************************)
(* src/graph/graphrag.py: the building of the graph from the scraped       *)
(* pages.  A page is the dict of the data file; its items are dicts with a *)
(* "text" key, or without one.                                             *)
(***************************************************************************)
CATEGORY ==
    <<"C", "a", "t", "e", "g", "o", "r", "y">>

CAKE_RECIPE ==
    <<"C", "a", "k", "e", " ", "R", "e", "c", "i", "p", "e">>

DESSERT ==
    <<"D", "e", "s", "s", "e", "r", "t">>

ABOUT ==
    <<"A", "b", "o", "u", "t">>

MILK ==
    <<"M", "i", "l", "k">>

AB ==
    <<"a", "b">>

INGREDIENT_PARAGRAPH ==
    <<"I", "n", "g", "r", "e", "d", "i", "e", "n", "t", "s", ":", " ", "-",
      " ", "M", "i", "l", "k", " ", "*", " ", "C", "a", "k", "e", " ", "R",
      "e", "c", "i", "p", "e">>

\* graphrag.py:63
RECIPE_KEYWORDS ==
    { <<"r", "e", "c", "i", "p", "e">>,
      <<"h", "o", "w", " ", "t", "o", " ", "m", "a", "k", "e">>,
      <<"h", "o", "w", " ", "t", "o", " ", "p", "r", "e", "p", "a", "r", "e">> }

\* graphrag.py:65
CATEGORY_KEYWORDS ==
    { <<"d", "e", "s", "s", "e", "r", "t">>,
      <<"m", "a", "i", "n", " ", "d", "i", "s", "h">>,
      <<"b", "r", "e", "a", "k", "f", "a", "s", "t">>,
      <<"l", "u", "n", "c", "h">>,
      <<"d", "i", "n", "n", "e", "r">> }

INGREDIENTS_MARK ==
    <<"i", "n", "g", "r", "e", "d", "i", "e", "n", "t", "s", ":">>

\* The characters re.split(r'[â€¢\-\*]', ...) splits at (graphrag.py:75).
SPLIT_MARKERS == {"â", "€", "¢", "-", "*"}

\* item.get('text', '')
TextOf(item) == IF "text" \in DOMAIN item THEN item.text ELSE <<>>

TextsOf(items) == [i \in 1..Len(items) |-> TextOf(items[i])]

\* any(keyword in text.lower() for keyword in keywords)
HasKeyword(text, keywords) ==
    \E keyword \in keywords : Contains(ToLower(text), keyword)

\* re.split on single characters: the pieces between the markers, empty
\* ones included.
RECURSIVE Split(_, _)
Split(s, markers) ==
    LET at == {i \in 1..Len(s) : s[i] \in markers}
        first == CHOOSE i \in at : \A k \in at : i <= k
    IN  IF at = {} THEN <<s>>
        ELSE <<SubSeq(s, 1, first - 1)>>
                 \o Split(SubSeq(s, first + 1, Len(s)), markers)

\* text and len(text) > 2
LongEnough(text) == text # <<>> /\ Len(text) > 2

\* graphrag.py:73-79: the ingredients of one paragraph.
ParagraphIngredients(text) ==
    IF Contains(ToLower(text), INGREDIENTS_MARK)
    THEN LET items == Split(text, SPLIT_MARKERS)
         IN  SelectSeq([i \in 1..Len(items) |-> Strip(items[i])], LongEnough)
    ELSE <<>>

\* graphrag.py:92-96: the ingredients of one table.
TableIngredients(table) ==
    SelectSeq(Concat(IF "rows" \in DOMAIN table THEN table.rows ELSE <<>>),
              LongEnough)

\* graphrag.py:51-99
extract_entities(data) ==
    LET headings == TextsOf(data.headings)
        paragraphs == TextsOf(data.paragraphs)
        IsRecipe(text) == HasKeyword(text, RECIPE_KEYWORDS)
        IsCategory(text) ==
            ~HasKeyword(text, RECIPE_KEYWORDS)
                /\ HasKeyword(text, CATEGORY_KEYWORDS)
    IN  [recipes |-> SelectSeq(headings, IsRecipe),
         ingredients |->
             Concat([i \in 1..Len(paragraphs) |->
                        ParagraphIngredients(paragraphs[i])])
             \o SelectSeq(TextsOf(data.list_items), LongEnough)
             \o Concat([i \in 1..Len(data.tables) |->
                           TableIngredients(data.tables[i])]),
         categories |-> SelectSeq(headings, IsCategory)]

HasLabel(node, label) == \E k \in 1..Len(node.labels) : node.labels[k] = label

\* The nodes MATCH (x:label {name: $name}) binds, by index.
Matching(st, label, name) ==
    LET Hit(i) == st.nodes[i].name = name /\ HasLabel(st.nodes[i], label)
    IN  SelectSeq([i \in 1..Len(st.nodes) |-> i], Hit)

\* CREATE (x:label {name: $name}): a node added whatever the store holds.
CreateNode(st, label, name) ==
    [st EXCEPT !.nodes = Append(@, [name |-> name, labels |-> <<label>>])]

\* MERGE (x:label {name: $name})
MergeNode(st, label, name) ==
    IF Matching(st, label, name) # <<>> THEN st
    ELSE [st EXCEPT !.nodes = Append(@, [name |-> name, labels |-> <<label>>])]

RECURSIVE MergeNodes(_, _, _)
MergeNodes(st, label, names) ==
    IF names = <<>> THEN st
    ELSE MergeNodes(MergeNode(st, label, names[1]), label, Tail(names))

\* MERGE (a)-[:type]->(b) for one bound pair of nodes.
MergeEdge(st, from, type, to) ==
    LET edge == [from |-> from, type |-> type, to |-> to]
    IN  IF \E k \in 1..Len(st.edges) : st.edges[k] = edge THEN st
        ELSE [st EXCEPT !.edges = Append(@, edge)]

RECURSIVE MergeEdges(_, _, _)
MergeEdges(st, type, bound) ==
    IF bound = <<>> THEN st
    ELSE MergeEdges(MergeEdge(st, bound[1][1], type, bound[1][2]), type,
                    Tail(bound))

\* MATCH (a:fromLabel {name}) MATCH (b:toLabel {name}) MERGE (a)-[:type]->(b)
MergeRelationship(st, fromLabel, fromName, type, toLabel, toName) ==
    LET as == Matching(st, fromLabel, fromName)
        bs == Matching(st, toLabel, toName)
    IN  MergeEdges(st, type,
                   Concat([i \in 1..Len(as) |->
                              [j \in 1..Len(bs) |-> <<as[i], bs[j]>>]]))

\* The loop of graphrag.py:151-161 or 165-175 over the pairs of names.
RECURSIVE MergeRelationships(_, _, _, _, _)
MergeRelationships(st, fromLabel, type, toLabel, pairs) ==
    IF pairs = <<>> THEN st
    ELSE MergeRelationships(
             MergeRelationship(st, fromLabel, pairs[1][1], type, toLabel,
                               pairs[1][2]),
             fromLabel, type, toLabel, Tail(pairs))

\* for a in as: for b in bs
Pairs(as, bs) ==
    Concat([i \in 1..Len(as) |-> [j \in 1..Len(bs) |-> <<as[i], bs[j]>>]])

\* The data file holds at most MaxPages pages.
MaxPages == 2

\* create_graph is run at most MaxRuns times on the same file.
MaxRuns == 2

\* The pages: no heading, a recipe heading and one with no text, or a
\* category heading, a plain one and the recipe heading again; no list item,
\* or the recipe's and the category's texts and a short one as list items;
\* nothing else, an ingredient paragraph, or a table.
PageSet ==
    { [headings |-> hs, paragraphs |-> body.paragraphs, list_items |-> lis,
       tables |-> body.tables] :
        hs \in { <<>>,
                 <<[text |-> CAKE_RECIPE], [level |-> <<"h", "2">>]>>,
                 <<[text |-> DESSERT], [text |-> ABOUT],
                   [text |-> CAKE_RECIPE]>> },
        lis \in { <<>>,
                  <<[text |-> CAKE_RECIPE], [text |-> AB],
                    [text |-> DESSERT]>> },
        body \in { [paragraphs |-> <<>>, tables |-> <<>>],
                   [paragraphs |-> <<[text |-> INGREDIENT_PARAGRAPH]>>,
                    tables |-> <<>>],
                   [paragraphs |-> <<[text |-> ABOUT]>>,
                    tables |-> <<[rows |-> << <<MILK, AB>>, <<DESSERT>> >>],
                                 [caption |-> ABOUT]>>] } }

\* The variables of the request handler, which the builder leaves alone.
request ==
    <<question, vector_docs, vector_context, entity, graph_results,
      graph_context, combined_context, response, predict_calls, raised,
      openai_model, api_key, calls, predicted, parked>>

\* graphrag.py:45-49, 194: the builder starts from a cleared store.
InitGraph ==
    /\ pages \in UNION { [1..n -> PageSet] : n \in 0..MaxPages }
    /\ page = 0
    /\ entities = NoEntities
    /\ runs = 0
    /\ store = [nodes |-> <<>>, edges |-> <<>>]
    /\ pc = "create_graph"
    /\ question = <<>>
    /\ vector_docs = <<>>
    /\ vector_context = <<>>
    /\ entity = <<>>
    /\ graph_results = NoResults
    /\ graph_context = <<>>
    /\ combined_context = <<>>
    /\ response = NoResponse
    /\ predict_calls = 0
    /\ raised = {}
    /\ openai_model = "None"
    /\ api_key = NoKey
    /\ calls = <<>>
    /\ predicted = <<>>
    /\ parked = NoRequest
    /\ NotScraping

\* graphrag.py:103-112: the data file is missing, or its pages are loaded.
LoadPages ==
    /\ pc = "create_graph"
    /\ \/ pc' = "return_108"
       \/ pc' = "next_page"
    /\ page' = 0
    /\ entities' = NoEntities
    /\ UNCHANGED <<store, pages, runs, request>>
    /\ UNCHANGED scraper

\* graphrag.py:115, 177: the loop goes to the next page, or create_graph
\* ends.
NextPage ==
    /\ pc = "next_page"
    /\ IF page < Len(pages)
       THEN /\ page' = page + 1
            /\ pc' = "extract_entities"
            /\ UNCHANGED runs
       ELSE /\ pc' = "created"
            /\ runs' = runs + 1
            /\ UNCHANGED page
    /\ UNCHANGED <<store, pages, entities, request>>
    /\ UNCHANGED scraper

\* graphrag.py:118
ExtractEntities ==
    /\ pc = "extract_entities"
    /\ entities' = extract_entities(pages[page])
    /\ pc' = "merge_recipes"
    /\ UNCHANGED <<store, pages, page, runs, request>>
    /\ UNCHANGED scraper

\* One loop of session.run calls: it runs to its end, or a call raises
\* after the calls before it took effect, and create_graph re-raises
\* (graphrag.py:179-181).
\* merged[k] is the store after the first k calls of the loop.
MergeLoop(at, next, items, merged) ==
    /\ pc = at
    /\ \/ \E k \in 0..(Len(items) - 1) :
            /\ store' = merged[k]
            /\ pc' = "raise_181"
       \/ /\ store' = merged[Len(items)]
          /\ pc' = next
    /\ UNCHANGED <<pages, page, entities, runs, request>>
    /\ UNCHANGED scraper

\* graphrag.py:124-128
MergeRecipes ==
    MergeLoop("merge_recipes", "merge_categories", entities.recipes,
              [k \in 0..Len(entities.recipes) |->
                  MergeNodes(store, RECIPE, Take(entities.recipes, k))])

\* graphrag.py:133-137
MergeCategories ==
    MergeLoop("merge_categories", "merge_ingredients", entities.categories,
              [k \in 0..Len(entities.categories) |->
                  MergeNodes(store, CATEGORY, Take(entities.categories, k))])

\* graphrag.py:142-146
MergeIngredients ==
    MergeLoop("merge_ingredients", "merge_has_ingredient",
              entities.ingredients,
              [k \in 0..Len(entities.ingredients) |->
                  MergeNodes(store, INGREDIENT,
                             Take(entities.ingredients, k))])

\* graphrag.py:151-161
MergeHasIngredient ==
    LET pairs == Pairs(entities.recipes, entities.ingredients)
    IN  MergeLoop("merge_has_ingredient", "merge_belongs_to_category", pairs,
                  [k \in 0..Len(pairs) |->
                      MergeRelationships(store, RECIPE, HAS_INGREDIENT,
                                         INGREDIENT, Take(pairs, k))])

\* graphrag.py:165-175
MergeBelongsToCategory ==
    LET pairs == Pairs(entities.recipes, entities.categories)
    IN  MergeLoop("merge_belongs_to_category", "next_page", pairs,
                  [k \in 0..Len(pairs) |->
                      MergeRelationships(store, RECIPE, BELONGS_TO_CATEGORY,
                                         CATEGORY, Take(pairs, k))])

\* create_graph called once more on the same file.
CreateGraphAgain ==
    /\ pc = "created"
    /\ runs < MaxRuns
    /\ pc' = "create_graph"
    /\ UNCHANGED <<store, pages, page, entities, runs, request>>
    /\ UNCHANGED scraper

NextGraph ==
    \/ LoadPages
    \/ NextPage
    \/ ExtractEntities
    \/ MergeRecipes
    \/ MergeCategories
    \/ MergeIngredients
    \/ MergeHasIngredient
    \/ MergeBelongsToCategory
    \/ CreateGraphAgain

SpecGraph == InitGraph /\ [][NextGraph]_vars

(***************************************************************************)
(* The scraper (scraper/nestle_scraper.py).  A page is what BeautifulSoup  *)
(* finds in it: for each tag the code asks for, the elements of            *)
(* soup.find_all(tag) in document order, each with its .text and the       *)
(* attributes it has.                                                      *)
(***************************************************************************)

\* nestle_scraper.py:195 (and the same literal at 112 and 126)
base_url ==
    <<"h", "t", "t", "p", "s", ":", "/", "/", "w", "w", "w", ".", "m", "a",
      "d", "e", "w", "i", "t", "h", "n", "e", "s", "t", "l", "e", ".", "c",
      "a">>

\* nestle_scraper.py:174
JAVASCRIPT_VOID ==
    <<"j", "a", "v", "a", "s", "c", "r", "i", "p", "t", ":", "v", "o", "i",
      "d">>

\* nestle_scraper.py:80
HEADING_TAGS == <<"h1", "h2", "h3", "h4">>

\* The message of the TypeError that subscripting None raises.
NOT_SUBSCRIPTABLE == "'NoneType' object is not subscriptable"

\* The message of an exception the browser driver raises.
DRIVER_FAILED == "WebDriverException"

RECIPES ==
    <<"/", "r", "e", "c", "i", "p", "e", "s">>

PRODUCTS ==
    <<"/", "p", "r", "o", "d", "u", "c", "t", "s">>

MENU ==
    <<"j", "a", "v", "a", "s", "c", "r", "i", "p", "t", ":", "v", "o", "i",
      "d", "(", "0", ")">>

ELSEWHERE ==
    <<"h", "t", "t", "p", "s", ":", "/", "/", "e", "x", "a", "m", "p", "l",
      "e", ".", "c", "o", "m", "/">>

LOGO ==
    <<"/", "l", "o", "g", "o", ".", "p", "n", "g">>

\* A text of white space only, and one with white space around it.
BLANK_TEXT == <<" ", "\n">>

PADDED_MILK == <<" ">> \o MILK \o <<"\n">>

\* tag.get(attr, default)
Get(element, attr, default) ==
    IF attr \in DOMAIN element THEN element[attr] ELSE default

\* s.rstrip('/')
RECURSIVE RStripSlash(_)
RStripSlash(s) ==
    IF s # <<>> /\ s[Len(s)] = "/"
    THEN RStripSlash(SubSeq(s, 1, Len(s) - 1))
    ELSE s

\* nestle_scraper.py:111-112, 125-126: a relative URL is made absolute.
Absolute(href) ==
    IF StartsWith(href, <<"/">>) THEN base_url \o href ELSE href

\* nestle_scraper.py:80-87: for each of h1..h4 in turn, its elements with a
\* text.
HeadingsOf(soup, url) ==
    LET Named(tag) ==
            SelectSeq(soup.h,
                      LAMBDA e : e.tag = tag /\ Strip(e.text) # <<>>)
        Entries(tag) ==
            [i \in 1..Len(Named(tag)) |->
                [type |-> tag, text |-> Strip(Named(tag)[i].text),
                 source_page |-> url]]
    IN  Concat([k \in 1..Len(HEADING_TAGS) |-> Entries(HEADING_TAGS[k])])

\* nestle_scraper.py:91-95, 99-103: the entries of the elements with a text.
TextEntries(elements, url) ==
    LET kept == SelectSeq(elements, LAMBDA e : Strip(e.text) # <<>>)
    IN  [i \in 1..Len(kept) |->
            [text |-> Strip(kept[i].text), source_page |-> url]]

\* nestle_scraper.py:106-117
LinksOf(soup, url) ==
    LET kept == SelectSeq(soup.a,
                          LAMBDA a : /\ Get(a, "href", <<>>) # <<>>
                                     /\ Strip(a.text) # <<>>)
    IN  [i \in 1..Len(kept) |->
            [text |-> Strip(kept[i].text), href |-> Absolute(kept[i].href),
             source_page |-> url]]

\* nestle_scraper.py:120-131
ImagesOf(soup, url) ==
    LET kept == SelectSeq(soup.img, LAMBDA img : Get(img, "src", <<>>) # <<>>)
    IN  [i \in 1..Len(kept) |->
            [alt |-> Get(kept[i], "alt", <<>>), src |-> Absolute(kept[i].src),
             source_page |-> url]]

\* nestle_scraper.py:135-147: the stripped th texts, and for each tr with a
\* td its stripped td texts.
TableData(table, url) ==
    LET rows == SelectSeq(table.tr, LAMBDA tr : tr # <<>>)
    IN  [headers |-> [i \in 1..Len(table.th) |-> Strip(table.th[i])],
         rows |-> [i \in 1..Len(rows) |->
                      [j \in 1..Len(rows[i]) |-> Strip(rows[i][j])]],
         source_page |-> url]

\* nestle_scraper.py:134-150
TablesOf(soup, url) ==
    LET all == [i \in 1..Len(soup.table) |-> TableData(soup.table[i], url)]
    IN  SelectSeq(all, LAMBDA t : t.headers # <<>> \/ t.rows # <<>>)

\* nestle_scraper.py:58-152.  The loops over a, img and table and the
\* return statement are indented into the body of the loop over li
\* (98-152): they run in its first iteration, which returns; with no li the
\* function ends without returning.
extract_page_content(soup, url) ==
    IF soup.li = <<>>
    THEN None
    ELSE [headings |-> HeadingsOf(soup, url),
          paragraphs |-> TextEntries(soup.p, url),
          list_items |-> TextEntries(<<soup.li[1]>>, url),
          links |-> LinksOf(soup, url),
          images |-> ImagesOf(soup, url),
          tables |-> TablesOf(soup, url)]

\* nestle_scraper.py:154-186
extract_internal_links(soup, base) ==
    LET hrefs == {Get(soup.a[i], "href", <<>>) : i \in 1..Len(soup.a)}
        followed == {h \in hrefs : h # <<>> /\ ~Contains(h, JAVASCRIPT_VOID)}
        Abs(h) == IF StartsWith(h, <<"/">>) THEN RStripSlash(base) \o h ELSE h
    IN  {u \in {Abs(h) : h \in followed} : StartsWith(u, base)}

\* nestle_scraper.py:232-233, 259-260: each list of the combined data
\* extended with the page's.
Extended(combined, data) ==
    [key \in DOMAIN combined |-> combined[key] \o data[key]]

\* nestle_scraper.py:277-285
ErrorData(message) ==
    [error |-> message, headings |-> <<>>, paragraphs |-> <<>>,
     list_items |-> <<>>, links |-> <<>>, images |-> <<>>, tables |-> <<>>]

\* A page has at most MaxListItems li elements.
MaxListItems == 2

\* The li elements of a page: none, one or several, with a text or blank.
ListItemSet ==
    UNION { [1..n -> {[text |-> BLANK_TEXT], [text |-> PADDED_MILK]}] :
              n \in 0..MaxListItems }

\* A page with nothing but its li elements.
PLAIN_PAGE ==
    [h |-> <<>>, p |-> <<>>, a |-> <<>>, img |-> <<>>, table |-> <<>>]

\* A page with headings out of tag order, a blank heading and a blank
\* paragraph; links that are relative, absolute, to the homepage, to a
\* script and to another site, one with no href and one with no text;
\* images with and without src and alt; a table with a header and a row
\* after a row of no td, and a table with neither.
RICH_PAGE ==
    [h |-> <<[tag |-> "h2", text |-> ABOUT],
             [tag |-> "h1", text |-> <<" ">> \o CAKE_RECIPE],
             [tag |-> "h3", text |-> BLANK_TEXT]>>,
     p |-> <<[text |-> DESSERT \o <<"\n">>], [text |-> BLANK_TEXT]>>,
     a |-> <<[href |-> RECIPES, text |-> CAKE_RECIPE],
             [href |-> base_url \o PRODUCTS, text |-> MILK],
             [href |-> base_url, text |-> BLANK_TEXT],
             [href |-> MENU, text |-> ABOUT],
             [href |-> ELSEWHERE, text |-> AB],
             [text |-> ABOUT]>>,
     img |-> <<[src |-> LOGO, alt |-> ABOUT], [alt |-> MILK],
               [src |-> ELSEWHERE]>>,
     table |-> <<[th |-> <<PADDED_MILK>>, tr |-> << <<>>, <<AB, BLANK_TEXT>> >>],
                 [th |-> <<>>, tr |-> << <<>> >>]>>]

\* The pages the site serves.
PageDoms ==
    { [h |-> body.h, p |-> body.p, li |-> lis, a |-> body.a,
       img |-> body.img, table |-> body.table] :
        body \in {PLAIN_PAGE, RICH_PAGE}, lis \in ListItemSet }

\* The homepage and the two pages its links lead to.
Urls == {base_url, base_url \o RECIPES, base_url \o PRODUCTS}

\* The variables of the graph builder, which the scraper leaves alone.
builder == <<store, pages, page, entities, runs>>

\* nestle_scraper.py:304-308: main calls scrape_nestle_website.
InitScrape ==
    /\ site \in [Urls -> PageDoms]
    /\ pc = "scrape"
    /\ driver = "None"
    /\ combined_data = EmptyData
    /\ internal_links = {}
    /\ visited_links = {}
    /\ link = <<>>
    /\ page_data = None
    /\ scraped = None
    /\ store = [nodes |-> <<>>, edges |-> <<>>]
    /\ pages = <<>>
    /\ page = 0
    /\ entities = NoEntities
    /\ runs = 0
    /\ question = <<>>
    /\ vector_docs = <<>>
    /\ vector_context = <<>>
    /\ entity = <<>>
    /\ graph_results = NoResults
    /\ graph_context = <<>>
    /\ combined_context = <<>>
    /\ response = NoResponse
    /\ predict_calls = 0
    /\ raised = {}
    /\ openai_model = "None"
    /\ api_key = NoKey
    /\ calls = <<>>
    /\ predicted = <<>>
    /\ parked = NoRequest

\* nestle_scraper.py:196-210: the driver is set up, or setup_driver raises
\* and the outer handler returns the error record (275-285) with no driver
\* to quit.
SetupDriver ==
    /\ pc = "scrape"
    /\ \/ /\ driver' = "open"
          /\ combined_data' = EmptyData
          /\ pc' = "get_homepage"
          /\ UNCHANGED scraped
       \/ /\ scraped' = ErrorData(DRIVER_FAILED)
          /\ pc' = "scrape_return"
          /\ UNCHANGED <<driver, combined_data>>
    /\ UNCHANGED <<site, internal_links, visited_links, link, page_data,
                   request, builder>>

\* nestle_scraper.py:214-225: the homepage is loaded and parsed, or the
\* driver raises: the error record is returned and the driver quit
\* (275-288).
GetHomepage ==
    /\ pc = "get_homepage"
    /\ \/ /\ pc' = "extract_homepage"
          /\ UNCHANGED <<driver, scraped>>
       \/ /\ scraped' = ErrorData(DRIVER_FAILED)
          /\ driver' = "quit"
          /\ pc' = "scrape_return"
    /\ UNCHANGED <<site, combined_data, internal_links, visited_links, link,
                   page_data, request, builder>>

\* nestle_scraper.py:229
ExtractHomepage ==
    /\ pc = "extract_homepage"
    /\ page_data' = extract_page_content(site[base_url], base_url)
    /\ pc' = "extend_homepage"
    /\ UNCHANGED <<site, driver, combined_data, internal_links,
                   visited_links, link, scraped, request, builder>>

\* nestle_scraper.py:232-237: homepage_data[key] raises TypeError when
\* homepage_data is None, and the outer handler returns the error record
\* (275-288).
ExtendHomepage ==
    /\ pc = "extend_homepage"
    /\ IF page_data = None
       THEN /\ scraped' = ErrorData(NOT_SUBSCRIPTABLE)
            /\ driver' = "quit"
            /\ pc' = "scrape_return"
            /\ UNCHANGED <<combined_data, internal_links, visited_links>>
       ELSE /\ combined_data' = Extended(combined_data, page_data)
            /\ internal_links' =
                   extract_internal_links(site[base_url], base_url)
            /\ visited_links' = {base_url}
            /\ pc' = "next_link"
            /\ UNCHANGED <<driver, scraped>>
    /\ UNCHANGED <<site, link, page_data, request, builder>>

\* nestle_scraper.py:240-242, 272-273, 287-288: the loop takes a link of
\* the set, in whichever order the set gives them, and skips a visited one;
\* after the last the combined data is returned and the driver quit.
NextLink ==
    /\ pc = "next_link"
    /\ IF internal_links = {}
       THEN /\ scraped' = combined_data
            /\ driver' = "quit"
            /\ pc' = "scrape_return"
            /\ UNCHANGED <<internal_links, link>>
       ELSE /\ \E l \in internal_links :
                 /\ link' = l
                 /\ internal_links' = internal_links \ {l}
                 /\ pc' = IF l \in visited_links
                          THEN "next_link"
                          ELSE "get_link"
            /\ UNCHANGED <<driver, scraped>>
    /\ UNCHANGED <<site, combined_data, visited_links, page_data, request,
                   builder>>

\* nestle_scraper.py:246-253: the page is loaded and parsed, or the driver
\* raises and the loop goes on (266-270).
GetLink ==
    /\ pc = "get_link"
    /\ \/ pc' = "extract_link"
       \/ pc' = "next_link"
    /\ UNCHANGED <<scraper, request, builder>>

\* nestle_scraper.py:256
ExtractLink ==
    /\ pc = "extract_link"
    /\ page_data' = extract_page_content(site[link], link)
    /\ pc' = "extend_link"
    /\ UNCHANGED <<site, driver, combined_data, internal_links,
                   visited_links, link, scraped, request, builder>>

\* nestle_scraper.py:259-263: page_data[key] raises TypeError when page_data
\* is None; the handler logs it and the loop goes on (266-270), the link
\* not marked as visited.
ExtendLink ==
    /\ pc = "extend_link"
    /\ IF page_data = None
       THEN UNCHANGED <<combined_data, visited_links>>
       ELSE /\ combined_data' = Extended(combined_data, page_data)
            /\ visited_links' = visited_links \cup {link}
    /\ pc' = "next_link"
    /\ UNCHANGED <<site, driver, internal_links, link, page_data, scraped,
                   request, builder>>

NextScrape ==
    \/ SetupDriver
    \/ GetHomepage
    \/ ExtractHomepage
    \/ ExtendHomepage
    \/ NextLink
    \/ GetLink
    \/ ExtractLink
    \/ ExtendLink

SpecScrape == InitScrape /\ [][NextScrape]_vars

(***************************************************************************)
(* The extraction claims.  They describe the result by where the pattern   *)
(* lies in the question, with no reference to the matching above.          *)
(***************************************************************************)
QuoteChars == {DQ, SQ}

Alnum == Upper \cup Lower \cup Digit

Positions(s) == (1..Len(s)) \X (1..Len(s))

\* p[1] and p[2] hold the same quote character, with a non-empty text free
\* of that character between them.
IsSpan(s, p) ==
    /\ s[p[1]] \in QuoteChars
    /\ p[2] > p[1] + 1
    /\ s[p[2]] = s[p[1]]
    /\ \A k \in (p[1] + 1)..(p[2] - 1) : s[k] # s[p[1]]

Spans(s) == {p \in Positions(s) : IsSpan(s, p)}

\* The member of a set of <<first, last>> pairs that starts leftmost.
Leftmost(S) == CHOOSE p \in S : \A r \in S : p[1] <= r[1]

Inside(s, p) == SubSeq(s, p[1] + 1, p[2] - 1)

AllWhitespace(s) == \A i \in 1..Len(s) : s[i] \in Whitespace

\* C2, as stated: the extraction never returns the empty string.
C2_NeverEmpty == pc = "extracted" => entity # <<>>

\* C2, amended: the extraction returns the empty string exactly when the
\* question is empty or all whitespace, or the text inside its first quoted
\* span is all whitespace; for every other question the result is
\* non-empty.
C2_EmptyExactlyWhenBlank ==
    pc = "extracted" =>
        ((entity = <<>>) <=>
            IF Spans(question) # {}
            THEN AllWhitespace(Inside(question, Leftmost(Spans(question))))
            ELSE AllWhitespace(question))

\* Both ways to the empty result have happened: a question of spaces only,
\* or a quoted span of spaces only inside a question that has other text.
C2_Witness ==
    /\ pc = "extracted"
    /\ entity = <<>>
    /\ Spans(question) # {}
    /\ ~AllWhitespace(question)

\* An apostrophe that directly follows a letter or a digit (as in "it's")
\* is a stray one; every other quote character can open a quoted span.
OpensQuote(s, i) ==
    \/ s[i] = DQ
    \/ s[i] = SQ /\ (i = 1 \/ s[i - 1] \notin Alnum)

QuotedSpans(s) == {p \in Spans(s) : OpensQuote(s, p[1])}

\* C3, as stated: when the question holds a quoted span, the result is the
\* text inside the first quoted span, stripped, whatever surrounds it, a
\* stray apostrophe included.
C3_FirstQuotedSpanReturned ==
    pc = "extracted" /\ QuotedSpans(question) # {} =>
        entity = Strip(Inside(question, Leftmost(QuotedSpans(question))))

\* The in/of pattern at p[1], its X ending at p[2]: the keyword, a space, a
\* capital and at least one more character of the class, as far as the class
\* goes.
IsInOf(s, p) ==
    /\ p[1] + 4 <= p[2]
    /\ <<s[p[1]], s[p[1] + 1]>> \in {<<"i", "n">>, <<"o", "f">>}
    /\ s[p[1] + 2] = " "
    /\ s[p[1] + 3] \in Upper
    /\ \A k \in (p[1] + 4)..p[2] : IsEntityChar(s[k])
    /\ p[2] = Len(s) \/ ~IsEntityChar(s[p[2] + 1])

\* A run of six or more characters from p[1] to p[2]: a capital, then
\* characters of the class, as far as the class goes.
IsCapitalRun(s, p) ==
    /\ p[1] + 5 <= p[2]
    /\ s[p[1]] \in Upper
    /\ \A k \in (p[1] + 1)..p[2] : IsEntityChar(s[k])
    /\ p[2] = Len(s) \/ ~IsEntityChar(s[p[2] + 1])

InOfs(s) == {p \in Positions(s) : IsInOf(s, p)}

CapitalRuns(s) == {p \in Positions(s) : IsCapitalRun(s, p)}

OccursAt(hay, needle, at) ==
    /\ at + Len(needle) <= Len(hay)
    /\ \A k \in 1..Len(needle) : hay[at + k] = needle[k]

\* The lengths of the first n texts, each counted with one separator.
RECURSIVE SumLens(_, _)
SumLens(texts, n) ==
    IF n = 0 THEN 0 ELSE Len(texts[n]) + 1 + SumLens(texts, n - 1)

DirectLines ==
    [i \in 1..Len(graph_results.direct_matches) |->
        DirectLine(graph_results.direct_matches[i])]

RelatedLines ==
    [i \in 1..Len(graph_results.connected_nodes) |->
        RelatedLine(graph_results.connected_nodes[i])]

\* The lengths of the three blocks of the fused context, from the retrieved
\* documents and records: each block with its header and separators.
VectorBlockLen ==
    IF SumLens(vector_docs, Len(vector_docs)) <= 1 THEN 0
    ELSE Len(TEXT_HEADER) + SumLens(vector_docs, Len(vector_docs)) - 1 + 2

DirectBlockLen ==
    IF DirectLines = <<>> THEN 0
    ELSE Len(DIRECT_HEADER) + 1 + SumLens(DirectLines, Len(DirectLines))

RelatedBlockLen ==
    IF RelatedLines = <<>> THEN 0
    ELSE Len(RELATED_HEADER) + 1 + SumLens(RelatedLines, Len(RelatedLines))

GraphBlockLen ==
    IF DirectLines = <<>> /\ RelatedLines = <<>> THEN 0
    ELSE Len(GRAPH_HEADER) + DirectBlockLen + RelatedBlockLen - 1

\* text lies nowhere in hay.
Missing(hay, text) ==
    \A at \in 0..Len(hay) : ~OccursAt(hay, text, at)

\* C1, as stated: the fused context is never longer than the budget
\* maxChars (here MaxChars), and a line of the graph block is missing from
\* it only when every vector document is missing too.
C1_WithinMaxChars ==
    Fused =>
        /\ Len(combined_context) <= MaxChars
        /\ (\E i \in 1..Len(DirectLines \o RelatedLines) :
               Missing(combined_context, (DirectLines \o RelatedLines)[i]))
             => \A j \in 1..Len(vector_docs) :
                    \/ vector_docs[j] = <<>>
                    \/ Missing(combined_context, vector_docs[j])

\* C1, amended: nothing bounds the fused context and nothing is dropped from
\* it.  Its length is the sum of the lengths of its blocks, every vector
\* document is in it in full, in order, and so is every line of the graph
\* block.
C1_NothingDropped ==
    Fused =>
        /\ Len(combined_context) = VectorBlockLen + GraphBlockLen
        /\ VectorBlockLen > 0 =>
             \A i \in 1..Len(vector_docs) :
                 OccursAt(combined_context, vector_docs[i],
                          Len(TEXT_HEADER) + SumLens(vector_docs, i - 1))
        /\ \A i \in 1..Len(DirectLines) :
               OccursAt(combined_context, DirectLines[i],
                        VectorBlockLen + Len(GRAPH_HEADER)
                            + Len(DIRECT_HEADER) + 1
                            + SumLens(DirectLines, i - 1))
        /\ \A i \in 1..Len(RelatedLines) :
               OccursAt(combined_context, RelatedLines[i],
                        VectorBlockLen + Len(GRAPH_HEADER) + DirectBlockLen
                            + Len(RELATED_HEADER) + 1
                            + SumLens(RelatedLines, i - 1))

\* A fused context longer than the budget, with documents and both kinds of
\* graph lines in it.
C1_Witness ==
    /\ Fused
    /\ Len(combined_context) > MaxChars
    /\ Len(vector_docs) = MaxDocs
    /\ DirectLines # <<>>
    /\ RelatedLines # <<>>

\* C5: query_graph_database never holds more than 5 direct matches or more
\* than 10 connected edges.
C5_ResultCaps ==
    /\ Len(graph_results.direct_matches) <= 5
    /\ Len(graph_results.connected_nodes) <= 10

\* The store matches more nodes and edges than the caps, and the query
\* returned exactly 5 and 10.
C5_Witness ==
    /\ pc = "graph_return"
    /\ Len(DirectMatchQueryUnlimited(store, entity)) > 5
    /\ Len(ConnectedRows(store, entity, 1)) > 10
    /\ Len(graph_results.direct_matches) = 5
    /\ Len(graph_results.connected_nodes) = 10

IsPrefix(s, t) == Len(s) <= Len(t) /\ s = SubSeq(t, 1, Len(s))

\* What the two queries hold for the entity, record by record.
AllDirectMatches ==
    LET records == DirectMatchQuery(store, entity)
    IN  [i \in 1..Len(records) |-> DirectMatchOf(records[i])]

AllConnectedNodes ==
    LET records == ConnectedNodesQuery(store, entity)
    IN  [i \in 1..Len(records) |-> ConnectedNodeOf(records[i])]

\* C6, as stated: when the store is unreachable, or a query or a record read
\* raises, the result is empty and the request gets no error payload.
C6_EmptyOnFailure ==
    "graph" \in raised =>
        /\ graph_results = NoResults
        /\ response.key # "error"

\* C6, amended: when the store is unreachable, or a query or a record read
\* raises, no exception reaches the request, and the result holds the
\* records read before the failure: the first direct matches and, only when
\* all of them were read, the first connected edges.
C6_PartialOnFailure ==
    "graph" \in raised =>
        /\ response.key # "error"
        /\ pc # "return_224"
        /\ IsPrefix(graph_results.direct_matches, AllDirectMatches)
        /\ IsPrefix(graph_results.connected_nodes, AllConnectedNodes)
        /\ graph_results.connected_nodes # <<>>
             => graph_results.direct_matches = AllDirectMatches

\* A failure in the second loop has left direct matches and some connected
\* edges in the result, and the request has returned an answer.
C6_Witness ==
    /\ "graph" \in raised
    /\ Returned
    /\ graph_results.direct_matches # <<>>
    /\ graph_results.connected_nodes # <<>>
    /\ graph_results.connected_nodes # AllConnectedNodes

\* C7, as stated: when similarity_search raises, the request goes on with
\* no vector documents and never ends in an error payload.
C7_VectorSoftFail ==
    "vector" \in raised =>
        /\ vector_docs = <<>>
        /\ response.key # "error"

\* C7, amended: when similarity_search raises, the request ends at once in
\* the error payload with the exception's text; the entity is not
\* extracted, the graph store is not queried and the model is not called.
C7_VectorErrorPayload ==
    "vector" \in raised =>
        /\ pc = "return_224"
        /\ response = [key |-> "error", value |-> VECTOR_ERROR]
        /\ entity = <<>>
        /\ graph_results = NoResults
        /\ raised = {"vector"}
        /\ predict_calls = 0

\* similarity_search raised and the request has returned.
C7_Witness == "vector" \in raised /\ Returned

\* C8: when both retrievals came back empty, the fused context is empty, the
\* answer is the canned text, it is not a fallback answer, and the model was
\* not called.
C8_NoContext ==
    /\ Fused
    /\ vector_docs = <<>>
    /\ graph_results.direct_matches = <<>>
    /\ graph_results.connected_nodes = <<>>
    => /\ combined_context = <<>>
       /\ pc = "return_203"
       /\ response = [key |-> "answer", value |-> NO_INFORMATION]
       /\ predict_calls = 0

\* "Tell me about 'KitKat'", entity KitKat, a store with no node, no
\* document: the canned answer.
C8_Witness ==
    /\ pc = "return_203"
    /\ question = Q_KITKAT
    /\ entity = KITKAT
    /\ store.nodes = <<>>
    /\ raised = {}

\* C9: with a non-empty context, when the client is None, the key is missing
\* or fails the handler's test (longer than 20 characters), or the call
\* raises (as it does for a key the service rejects), the request returns
\* the answer "Here's what I found about '<question>':\n\n<context>", made
\* by get_mock_response, and no error payload.
C9_Fallback ==
    /\ Returned
    /\ combined_context # <<>>
    /\ \/ openai_model = "None"
       \/ ~api_key.set
       \/ Len(api_key.value) <= 20
       \/ "model" \in raised
    => /\ pc \in {"return_217", "return_221"}
       /\ response =
              [key |-> "answer",
               value |-> MOCK_PREFIX \o question \o MOCK_SUFFIX
                             \o combined_context]

\* The model raised, over a context with documents and graph matches.
C9_Witness ==
    /\ pc = "return_217"
    /\ "model" \in raised
    /\ vector_docs # <<>>
    /\ graph_results.direct_matches # <<>>

\* C10: the model is called at most once in a request; a call that raises
\* goes to the handler, which returns the fallback answer without another
\* call; and once the request has returned, nothing more happens.
C10_OneShot ==
    [][/\ predict_calls' <= 1
       /\ ~Returned
       /\ ("model" \in raised' /\ "model" \notin raised) => pc' = "except_214"
       /\ pc = "except_214" =>
            /\ pc' = "return_217"
            /\ predict_calls' = predict_calls]_vars

\* The one call raised and the fallback answer was returned.
C10_Witness ==
    /\ pc = "return_217"
    /\ predict_calls = 1

(***************************************************************************)
(* The layout of the fused context.                                        *)
(***************************************************************************)

\* The texts, each one led by sep.
RECURSIVE Led(_, _)
Led(sep, texts) ==
    IF texts = <<>> THEN <<>>
    ELSE sep \o texts[1] \o Led(sep, Tail(texts))

\* The texts with sep between them.
Separated(sep, texts) ==
    IF texts = <<>> THEN <<>>
    ELSE SubSeq(Led(sep, texts), Len(sep) + 1, Len(Led(sep, texts)))

NL == <<"\n">>

BLANK_LINE == <<"\n", "\n">>

\* Both retrievals brought text: the documents' texts are not all empty and
\* the graph result holds a record.
BothSources ==
    /\ Separated(NL, vector_docs) # <<>>
    /\ graph_results # NoResults

\* C11, as stated: with both sources non-empty, the fused context is the
\* graph block, a blank line, then the documents' texts joined by blank
\* lines.
C11_GraphFirst ==
    Fused /\ BothSources =>
        combined_context =
            graph_context \o BLANK_LINE \o Separated(BLANK_LINE, vector_docs)

\* C11, amended: with both sources non-empty, the fused context is the line
\* "Text-based information:", the documents' texts in the order returned,
\* joined by single newlines, a blank line, the line "Graph-based
\* information:" and the graph block: text first, graph second.
C11_TextFirst ==
    Fused /\ BothSources =>
        combined_context =
            TEXT_HEADER \o Separated(NL, vector_docs) \o BLANK_LINE
                \o GRAPH_HEADER \o graph_context

\* Two documents and a graph result with direct matches and edges, fused.
C11_Witness ==
    /\ Fused
    /\ vector_docs = <<DOC_TEXT, DOC_TEXT>>
    /\ graph_results.direct_matches # <<>>
    /\ graph_results.connected_nodes # <<>>

\* "  - <firstLabel>: <name>" for each direct match of the result.
DirectMatchLines ==
    [i \in 1..Len(graph_results.direct_matches) |->
        <<" ", " ", "-", " ">> \o graph_results.direct_matches[i].type
            \o <<":", " ">> \o graph_results.direct_matches[i].name]

\* "Direct matches found:" and one line per direct match.
DirectBlock ==
    IF DirectMatchLines = <<>> THEN <<>>
    ELSE DIRECT_HEADER \o Led(NL, DirectMatchLines)

OnlyDirectMatches ==
    /\ vector_docs = <<>>
    /\ graph_results.direct_matches # <<>>
    /\ graph_results.connected_nodes = <<>>

\* C12, as stated: with direct matches, no connected edge and no document,
\* the fused context is exactly "Direct matches found:" and one line
\* "  - <firstLabel>: <name>" per match, in order, with no other text.
C12_FusedIsDirectBlock ==
    Fused /\ OnlyDirectMatches => combined_context = DirectBlock

\* C12, amended: with direct matches, no connected edge and no document,
\* format_graph_context returns exactly "Direct matches found:" and one line
\* "  - <firstLabel>: <name>" per match, in order, and the fused context is
\* the line "Graph-based information:" followed by exactly that text.
C12_HeaderThenDirectBlock ==
    Fused /\ OnlyDirectMatches =>
        /\ graph_context = DirectBlock
        /\ combined_context = GRAPH_HEADER \o DirectBlock

\* Several direct matches of two labels and nothing else, fused.
C12_Witness ==
    /\ Fused
    /\ OnlyDirectMatches
    /\ Len(graph_results.direct_matches) = DIRECT_LIMIT
    /\ \E i, j \in 1..Len(graph_results.direct_matches) :
           /\ graph_results.direct_matches[i].type = RECIPE
           /\ graph_results.direct_matches[j].type = INGREDIENT

\* The relation type with its underscores as spaces and its first letter
\* upper-cased, the other characters as they were.
HumanizedKeepingCase(rel) ==
    [k \in 1..Len(rel) |->
        IF rel[k] = "_" THEN " "
        ELSE IF k = 1 THEN UpperChar(rel[k]) ELSE rel[k]]

\* The same with every letter but the first lower-cased.
HumanizedLowered(rel) ==
    [k \in 1..Len(rel) |->
        IF rel[k] = "_" THEN " "
        ELSE IF k = 1 THEN UpperChar(rel[k]) ELSE LowerChar(rel[k])]

\* "  - <source> <relation> <target> (<targetLabel>)" for each edge of the
\* result, the relation humanized with its case kept or lowered.
EdgeLines(keepCase) ==
    [i \in 1..Len(graph_results.connected_nodes) |->
        LET rel == graph_results.connected_nodes[i]
            humanized == IF keepCase
                         THEN HumanizedKeepingCase(rel.relationship)
                         ELSE HumanizedLowered(rel.relationship)
        IN  <<" ", " ", "-", " ">> \o rel.source \o <<" ">> \o humanized
                \o <<" ">> \o rel.target
                \o <<" ", "(">> \o rel.target_type \o <<")">>]

RELATED_TEXT ==
    <<"R", "e", "l", "a", "t", "e", "d", " ", "i", "n", "f", "o", "r", "m",
      "a", "t", "i", "o", "n", ":">>

\* The block of the direct matches, then a blank line, the header and the
\* edge lines.
GraphTextWith(keepCase) ==
    DirectBlock \o (IF DirectBlock # <<>> THEN NL ELSE <<>>)
        \o Led(NL, <<RELATED_TEXT>> \o EdgeLines(keepCase))

\* C13, as stated: for a non-empty list of edges the text has a blank line,
\* "Related information:" and one line per edge in order, the relation type
\* with underscores replaced by spaces, its first letter capitalized and its
\* other characters left as they were.
C13_RestUnchanged ==
    Fused /\ graph_results.connected_nodes # <<>> =>
        graph_context = GraphTextWith(TRUE)

\* C13, amended: the same layout, the relation type with underscores
\* replaced by spaces, its first letter upper-cased and every other letter
\* lower-cased (HAS_INGREDIENT reads "Has ingredient").
C13_RestLowered ==
    Fused /\ graph_results.connected_nodes # <<>> =>
        graph_context = GraphTextWith(FALSE)

\* Edges of both relation types, formatted.
C13_Witness ==
    /\ Fused
    /\ \E i, j \in 1..Len(graph_results.connected_nodes) :
           /\ graph_results.connected_nodes[i].relationship = HAS_INGREDIENT
           /\ graph_results.connected_nodes[j].relationship
                  = BELONGS_TO_CATEGORY

(***************************************************************************)
(* The payload of a request.                                               *)
(***************************************************************************)

\* The keys of the dict the handler returned.
ResponseKeys == IF response = NoResponse THEN {} ELSE {response.key}

\* r is s without its leading and trailing whitespace.
IsTrimOf(r, s) ==
    /\ r # <<>> => r[1] \notin Whitespace /\ r[Len(r)] \notin Whitespace
    /\ \E a \in 1..(Len(s) + 1) :
          /\ a + Len(r) - 1 <= Len(s)
          /\ \A i \in 1..Len(s) :
                IF i >= a /\ i < a + Len(r)
                THEN s[i] = r[i - a + 1]
                ELSE s[i] \in Whitespace

\* The model was called and its call returned.
ModelSucceeded == Returned /\ predict_calls > 0 /\ "model" \notin raised

\* C14, as stated: when the model call succeeds, the returned payload holds
\* the model's output trimmed as its answer and, under "sources", the source
\* URLs of the retrieved documents; it is not a fallback answer.
C14_AnswerWithSources ==
    ModelSucceeded =>
        /\ response.key = "answer"
        /\ IsTrimOf(response.value, predicted)
        /\ "sources" \in ResponseKeys
        /\ pc \notin {"return_217", "return_221"}

\* C14, amended: when the model call succeeds, the returned payload is the
\* model's output trimmed under "answer" and nothing else: it holds no
\* sources; it is not a fallback answer.
C14_AnswerOnly ==
    ModelSucceeded =>
        /\ ResponseKeys = {"answer"}
        /\ IsTrimOf(response.value, predicted)
        /\ pc = "return_213"

\* The model answered with whitespace around its text, over retrieved
\* documents.
C14_Witness ==
    /\ ModelSucceeded
    /\ predicted = REPLY_TEXT
    /\ response.value # predicted
    /\ vector_docs # <<>>

\* C15: a request returns once, with an answer payload or an error payload
\* and nothing else, and an exception of the vector store, the graph store
\* or the model never leaves ask_question: each one lands in an except
\* clause of the request (main.py:135, 214, 222), from where the request
\* goes on to return.  (Entity extraction and fusion work on a str and
\* raise nothing.)
C15_EveryRaiseHandled ==
    [][/\ ~Returned
       /\ response = NoResponse
       /\ Returned' <=> response' # NoResponse
       /\ Returned' => response'.key \in {"answer", "error"}
       /\ ("vector" \in raised' /\ "vector" \notin raised)
             => pc' = "return_224" /\ response'.key = "error"
       /\ ("graph" \in raised' /\ "graph" \notin raised)
             => pc' = "graph_return"
       /\ ("model" \in raised' /\ "model" \notin raised)
             => pc' = "except_214"
       /\ pc' \in {"extract_entity", "graph_session", "graph_direct",
                   "graph_connected", "graph_return", "synthesize",
                   "blocked_211", "except_214", "return_203", "return_213", "return_217",
                   "return_221", "return_224"}]_vars

\* The graph store and the model both raised in one request, which returned
\* an answer.
C15_Witness ==
    /\ Returned
    /\ raised = {"graph", "model"}
    /\ response.key = "answer"

(***************************************************************************)
(* A model call that does not return.                                      *)
(***************************************************************************)

\* C16, as stated: a request whose model call does not return is not
\* blocked forever; it eventually returns the fallback answer, as it does
\* when the call raises.
C16_HangFallsBack ==
    (pc = "blocked_211") ~> (pc = "return_217")

\* C16, amended: a model call that raises leads to the fallback answer, and
\* once the context is fused the request returns unless the model call
\* never returns; a call that never returns blocks the request for good,
\* with no response.
C16_BlockedForGood ==
    /\ ("model" \in raised) ~> (pc = "return_217")
    /\ (pc = "synthesize") ~> (Returned \/ pc = "blocked_211")
    /\ [][pc = "blocked_211" => pc' = "blocked_211" /\ response' = NoResponse]_vars

\* The model call did not return.
C16_Witness ==
    /\ pc = "blocked_211"
    /\ predict_calls = 1
    /\ raised = {}

(***************************************************************************)
(* Requests handled at once.                                               *)
(***************************************************************************)

\* The running and the parked request asked the same question and got the
\* same replies from the vector store, the graph store and the model.
SameRepliesToBoth ==
    /\ parked.question = question
    /\ parked.vector_docs = vector_docs
    /\ parked.graph_results = graph_results
    /\ parked.raised = raised
    /\ parked.predict_calls = predict_calls
    /\ parked.predicted = predicted

\* C17: however two requests are interleaved, no step of a handler writes
\* the graph store, the model client or the key, and two requests that
\* asked the same question and got the same replies have returned the same
\* response, whichever ran first and wherever they gave way to each other.
C17_NoSharedWrites ==
    [][/\ store' = store
       /\ openai_model' = openai_model
       /\ api_key' = api_key
       /\ (Returned' /\ parked'.pc = pc' /\ SameRepliesToBoth')
             => parked'.response = response']_vars

\* Both requests asked the same question and have returned: the running one
\* the model's answer, the parked one the fallback after the model raised.
C17_Witness ==
    /\ Returned
    /\ parked.pc = "return_217"
    /\ pc = "return_213"
    /\ parked.question = question
    /\ Len(store.nodes) = MaxPeerNodes

(***************************************************************************)
(* What the two stores are asked.                                          *)
(***************************************************************************)

\* C18: the vector store is asked once, first, for the 5 documents nearest
\* to the question as it came; the graph store is asked after it, and only
\* for the entity extract_entity_from_question finds in that question.  The
\* vector search is made before any graph reply exists, and the graph
\* search term is a function of the question alone.
C18_RetrievalInputs ==
    \A i \in 1..Len(calls) :
        /\ calls[i].to = "similarity_search"
              <=> i = 1
        /\ calls[i].to = "similarity_search"
              => calls[i].arg = question /\ calls[i].k = 5
        /\ calls[i].to \in {"direct_matches", "connected_nodes"}
              => calls[i].arg = extract_entity_from_question(question)

\* "Tell me about 'KitKat'": the vector store was asked the whole question,
\* the graph store twice for KitKat, with documents found.
C18_Witness ==
    /\ question = Q_KITKAT
    /\ vector_docs # <<>>
    /\ Len(calls) >= 3
    /\ calls[1] = [to |-> "similarity_search", arg |-> Q_KITKAT, k |-> 5]
    /\ calls[2] = [to |-> "direct_matches", arg |-> KITKAT, k |-> 5]
    /\ calls[3] = [to |-> "connected_nodes", arg |-> KITKAT, k |-> 10]

(***************************************************************************)
(* The key at start-up and in a request.                                   *)
(***************************************************************************)

\* The request has passed the test of main.py:205.
PastModelTest ==
    pc \in {"blocked_211", "except_214", "return_213", "return_217",
            "return_221"}

\* C19: with a non-empty context, the model is called exactly when the
\* client is there and the start-up check found the key: never for a key
\* that is missing, starts with "your-" or is shorter than 20 characters,
\* and always for a key the start-up check reports as found, one of exactly
\* 20 characters included.
C19_StartupAgrees ==
    PastModelTest =>
        (predict_calls > 0 <=> openai_model # "None" /\ StartupKeyFound)

(***************************************************************************)
(* The graph create_graph builds.                                          *)
(***************************************************************************)

\* No two nodes of the store have the same name.
UniqueNames ==
    \A i, j \in 1..Len(store.nodes) :
        i # j => store.nodes[i].name # store.nodes[j].name

\* No two nodes of the store have the same label and the same name.
UniqueNamesPerLabel ==
    \A i, j \in 1..Len(store.nodes) :
        i # j => \/ store.nodes[i].name # store.nodes[j].name
                 \/ store.nodes[i].labels # store.nodes[j].labels

\* C20, as stated: once create_graph has run over the pages, from a cleared
\* store, no two nodes have the same name, and a further run on the same
\* pages adds no node and no edge.
C20_UniqueNames ==
    [][/\ runs' >= 1 => UniqueNames'
       /\ runs >= 1 => store' = store]_vars

\* C20, amended: once create_graph has run over the pages, from a cleared
\* store, no two nodes have the same label and the same name, while a text
\* extracted both from a heading and as an ingredient names two nodes, one
\* per label; a further run on the same pages adds no node and no edge.
C20_UniquePerLabel ==
    [][/\ UniqueNamesPerLabel'
       /\ runs >= 1 => store' = store]_vars

\* create_graph has run twice over two pages; "Cake Recipe" names a Recipe
\* node and an Ingredient node, and the recipe has its edges.
C20_Witness ==
    /\ pc = "created"
    /\ runs = 2
    /\ Len(pages) = 2
    /\ Matching(store, RECIPE, CAKE_RECIPE) # <<>>
    /\ Matching(store, INGREDIENT, CAKE_RECIPE) # <<>>
    /\ \E k \in 1..Len(store.edges) : store.edges[k].type = HAS_INGREDIENT
    /\ \E k \in 1..Len(store.edges) :
           store.edges[k].type = BELONGS_TO_CATEGORY

(***************************************************************************)
(* What the scraper extracts from a page.                                  *)
(***************************************************************************)

\* The page extract_page_content was last called on.
ExtractedUrl == IF pc = "extend_homepage" THEN base_url ELSE link

\* Every heading, paragraph and list item with a text, every link with an
\* href and a text, every image with a src and every table with a header
\* or a row.
AllContent(soup, url) ==
    [headings |-> HeadingsOf(soup, url),
     paragraphs |-> TextEntries(soup.p, url),
     list_items |-> TextEntries(soup.li, url),
     links |-> LinksOf(soup, url),
     images |-> ImagesOf(soup, url),
     tables |-> TablesOf(soup, url)]

\* C21: for every page, with zero, one or several list items,
\* extract_page_content returns the record of the six lists holding every
\* non-empty element of the page, so scrape_nestle_website never fails on
\* extending its combined data from what was returned.
C21_ExtractsEveryElement ==
    /\ pc \in {"extend_homepage", "extend_link"}
          => page_data = AllContent(site[ExtractedUrl], ExtractedUrl)
    /\ pc = "scrape_return" /\ "error" \in DOMAIN scraped
          => scraped.error # NOT_SUBSCRIPTABLE

====
